---- MODULE Spec2Model ----
(***************************************************************************)
(* Model of starknet-grpc-codegen: aggregation of the OpenRPC fragments     *)
(* (RawSpecs::parse_full), resolution of the schema table into protobuf     *)
(* messages and enums (TypeResolver) and generation (ProtoGenerator).       *)
(*                                                                         *)
(* Strings are sequences of one-character strings, so that the casing and   *)
(* splitting conversions are computed character by character as the code    *)
(* computes them.  The alphabet is ASCII: for it char::to_uppercase and     *)
(* char::to_lowercase yield exactly one character.                          *)
(***************************************************************************)
EXTENDS Naturals, Integers, Sequences, FiniteSets, TLC

(***************************************************************************)
(* Characters                                                              *)
(***************************************************************************)
LowerChars ==
  <<"a","b","c","d","e","f","g","h","i","j","k","l","m",
    "n","o","p","q","r","s","t","u","v","w","x","y","z">>

UpperChars ==
  <<"A","B","C","D","E","F","G","H","I","J","K","L","M",
    "N","O","P","Q","R","S","T","U","V","W","X","Y","Z">>

is_lowercase(c) == \E i \in DOMAIN LowerChars : LowerChars[i] = c

is_uppercase(c) == \E i \in DOMAIN UpperChars : UpperChars[i] = c

to_uppercase(c) ==
  IF is_lowercase(c)
  THEN UpperChars[CHOOSE i \in DOMAIN LowerChars : LowerChars[i] = c]
  ELSE c

to_lowercase(c) ==
  IF is_uppercase(c)
  THEN LowerChars[CHOOSE i \in DOMAIN UpperChars : UpperChars[i] = c]
  ELSE c

str_to_lowercase(s) == [i \in DOMAIN s |-> to_lowercase(s[i])]

str_to_uppercase(s) == [i \in DOMAIN s |-> to_uppercase(s[i])]

\* str::split(sep): the pieces between the separators, empty pieces kept
RECURSIVE split(_, _)
split(s, sep) ==
  IF \A i \in DOMAIN s : s[i] # sep
  THEN <<s>>
  ELSE LET p == CHOOSE i \in DOMAIN s :
                  s[i] = sep /\ \A j \in 1..(i - 1) : s[j] # sep
       IN  <<SubSeq(s, 1, p - 1)>> \o split(SubSeq(s, p + 1, Len(s)), sep)

RECURSIVE concat(_)
concat(parts) ==
  IF parts = <<>> THEN <<>> ELSE Head(parts) \o concat(Tail(parts))

Digits == <<"0","1","2","3","4","5","6","7","8","9">>

\* the decimal text of an unsigned number, as format!("{}", n) writes it
RECURSIVE to_string(_)
to_string(n) ==
  IF n < 10 THEN <<Digits[n + 1]>>
  ELSE to_string(n \div 10) \o <<Digits[(n % 10) + 1]>>

\* writer.rs to_proto_type_name: PascalCase of the '_'-separated parts
capitalize_lower_rest(part) ==
  IF part = <<>> THEN <<>>
  ELSE <<to_uppercase(Head(part))>> \o str_to_lowercase(Tail(part))

\* faulty variant: the rest of a part keeps its case
to_proto_type_name_rest_kept(json_name) ==
  LET parts == split(json_name, "_")
  IN  concat([i \in DOMAIN parts |->
                IF parts[i] = <<>> THEN <<>>
                ELSE <<to_uppercase(Head(parts[i]))>> \o Tail(parts[i])])

to_proto_type_name(json_name) ==
  LET parts == split(json_name, "_")
  IN  concat([i \in DOMAIN parts |-> capitalize_lower_rest(parts[i])])

\* writer.rs to_proto_name: camelCase to snake_case, reserved words escaped
RECURSIVE to_snake(_, _)
to_snake(s, prev_char_was_lowercase) ==
  IF s = <<>> THEN <<>>
  ELSE LET ch == Head(s)
       IN  (IF is_uppercase(ch) /\ prev_char_was_lowercase
            THEN <<"_", to_lowercase(ch)>>
            ELSE <<to_lowercase(ch)>>)
           \o to_snake(Tail(s), is_lowercase(ch))

\* faulty variant: the reserved words are not escaped
to_proto_name_unescaped(json_name) == to_snake(json_name, FALSE)

to_proto_name(json_name) ==
  LET result == to_snake(json_name, FALSE)
  IN  IF result = <<"t","y","p","e">> THEN <<"t","y","p","e","_">>
      ELSE IF result = <<"r","e","f">> THEN <<"r","e","f","_">>
      ELSE result

(***************************************************************************)
(* Schema model (spec.rs).  One record shape for every variant:            *)
(*   kind        "Ref" | "OneOf" | "AllOf" | "String" | "Integer" |        *)
(*               "Boolean" | "Array" | "Object"                            *)
(*   ref         the $ref pointer of a Ref                                 *)
(*   description the optional description ("" when absent)                 *)
(*   hasEnum, enum   the optional enum list of a String                    *)
(*   names, sub  Object: property names and property schemas, in order;    *)
(*               Array: sub = <<items>>; OneOf / AllOf: sub = the parts    *)
(*   required    the required list of an Object                            *)
(***************************************************************************)
Schema ==
  [kind |-> "", ref |-> <<>>, description |-> "", hasEnum |-> FALSE,
   enum |-> <<>>, names |-> <<>>, sub |-> <<>>, required |-> <<>>]

Reference(pointer, d) ==
  [Schema EXCEPT !.kind = "Ref", !.ref = pointer, !.description = d]

StringPrimitive(d) == [Schema EXCEPT !.kind = "String", !.description = d]

StringEnum(values, d) ==
  [Schema EXCEPT !.kind = "String", !.hasEnum = TRUE, !.enum = values,
                 !.description = d]

IntegerPrimitive(d) == [Schema EXCEPT !.kind = "Integer", !.description = d]

BooleanPrimitive(d) == [Schema EXCEPT !.kind = "Boolean", !.description = d]

ArrayPrimitive(items) == [Schema EXCEPT !.kind = "Array", !.sub = <<items>>]

ObjectPrimitive(names, schemas, required, d) ==
  [Schema EXCEPT !.kind = "Object", !.names = names, !.sub = schemas,
                 !.required = required, !.description = d]

OneOf(variants) == [Schema EXCEPT !.kind = "OneOf", !.sub = variants]

AllOf(parts) == [Schema EXCEPT !.kind = "AllOf", !.sub = parts]

\* spec.rs Reference::name: the text after the last '/', or the whole pointer
name(reference) ==
  LET p == reference.ref
  IN  IF \E i \in DOMAIN p : p[i] = "/"
      THEN LET ind_slash == CHOOSE i \in DOMAIN p :
                     p[i] = "/" /\ \A j \in (i + 1)..Len(p) : p[j] # "/"
           IN  SubSeq(p, ind_slash + 1, Len(p))
      ELSE p

(***************************************************************************)
(* Texts used by the inputs: schema names, property names, enum values,    *)
(* method and parameter names (those of tests/integration_tests.rs and of  *)
(* the Starknet fragments).                                                 *)
(***************************************************************************)
FELT == <<"F","E","L","T">>

BLOCK_HASH == <<"B","L","O","C","K","_","H","A","S","H">>

BLOCK == <<"B","L","O","C","K">>

TXN_STATUS == <<"T","X","N","_","S","T","A","T","U","S">>

TXN == <<"T","X","N">>

BLOCK_ID == <<"B","L","O","C","K","_","I","D">>

BLOCK_NUMBER == <<"B","L","O","C","K","_","N","U","M","B","E","R">>

TXN_HASH == <<"T","X","N","_","H","A","S","H">>

block_hash == <<"b","l","o","c","k","_","h","a","s","h">>

block_number == <<"b","l","o","c","k","_","n","u","m","b","e","r">>

parent_hash == <<"p","a","r","e","n","t","_","h","a","s","h">>

calldata == <<"c","a","l","l","d","a","t","a">>

txnHash == <<"t","x","n","H","a","s","h">>

PENDING == <<"P","E","N","D","I","N","G">>

REJECTED == <<"R","E","J","E","C","T","E","D">>

SchemasPrefix == <<"#","/","c","o","m","p","o","n","e","n","t","s","/","s","c","h","e","m","a","s","/">>

starknet_getBlock == <<"s","t","a","r","k","n","e","t","_","g","e","t","B","l","o","c","k">>

starknet_blockNumber == <<"s","t","a","r","k","n","e","t","_","b","l","o","c","k","N","u","m","b","e","r">>

starknet_addInvokeTransaction == <<"s","t","a","r","k","n","e","t","_","a","d","d","I","n","v","o","k","e","T","r","a","n","s","a","c","t","i","o","n">>

starknet_subscribeEvents == <<"s","t","a","r","k","n","e","t","_","s","u","b","s","c","r","i","b","e","E","v","e","n","t","s">>

trace_transaction == <<"t","r","a","c","e","_","t","r","a","n","s","a","c","t","i","o","n">>

block_id == <<"b","l","o","c","k","_","i","d">>

invoke_transaction == <<"i","n","v","o","k","e","_","t","r","a","n","s","a","c","t","i","o","n">>

transaction_hash == <<"t","r","a","n","s","a","c","t","i","o","n","_","h","a","s","h">>

Ptr(schema_name) == SchemasPrefix \o schema_name

(***************************************************************************)
(* Methods and specifications (spec.rs).  result is <<>> (None) or         *)
(* <<schema>> (Some).                                                      *)
(***************************************************************************)
Param(param_name, required, schema) ==
  [name |-> param_name, required |-> required, schema |-> schema]

Method(method_name, params, result) ==
  [name |-> method_name, params |-> params, result |-> result]

Entry(key, value) == [key |-> key, value |-> value]

Specification(methods, schemas, errors) ==
  [methods |-> methods, schemas |-> schemas, errors |-> errors]

\* IndexMap accessors: a table is a sequence of entries with distinct keys
keys(table) == {table[i].key : i \in DOMAIN table}

contains_key(table, key) == \E i \in DOMAIN table : table[i].key = key

get(table, key) == table[CHOOSE i \in DOMAIN table : table[i].key = key].value

(***************************************************************************)
(* The methods of tests/integration_tests.rs create_test_specification      *)
(***************************************************************************)
EmptyObject == ObjectPrimitive(<<>>, <<>>, <<>>, "")

GetBlockMethod ==
  Method(starknet_getBlock,
         <<Param(block_id, TRUE, Reference(Ptr(BLOCK_HASH), ""))>>,
         <<Reference(Ptr(BLOCK), "")>>)

BlockNumberMethod ==
  Method(starknet_blockNumber, <<>>, <<IntegerPrimitive("")>>)

AddInvokeMethod ==
  Method(starknet_addInvokeTransaction,
         <<Param(invoke_transaction, TRUE, EmptyObject)>>,
         <<Reference(Ptr(FELT), "")>>)

SubscribeEventsMethod ==
  Method(starknet_subscribeEvents, <<>>, <<ArrayPrimitive(EmptyObject)>>)

TraceTransactionMethod ==
  Method(trace_transaction,
         <<Param(transaction_hash, TRUE, Reference(Ptr(FELT), ""))>>,
         <<EmptyObject>>)

(***************************************************************************)
(* Schemas of the inputs                                                   *)
(***************************************************************************)
FeltSchema == StringPrimitive("A field element")

BlockHashSchema == Reference(Ptr(FELT), "Block hash reference")

TxnStatusSchema == StringEnum(<<PENDING, REJECTED>>, "Status of a transaction")

BlockSchema ==
  ObjectPrimitive(<<block_hash, block_number, parent_hash>>,
                  <<Reference(Ptr(BLOCK_HASH), ""),
                    IntegerPrimitive("Block number"),
                    Reference(Ptr(BLOCK_HASH), "")>>,
                  <<block_hash, block_number>>,
                  "A block in the blockchain")

\* an object with an array property and a reference to a name no table defines
TxnSchema ==
  ObjectPrimitive(<<calldata, txnHash>>,
                  <<ArrayPrimitive(StringPrimitive("")),
                    Reference(Ptr(TXN_HASH), "")>>,
                  <<txnHash, block_id>>,
                  "A transaction")

ErrorType(code, message) == [code |-> code, message |-> message]

(***************************************************************************)
(* Fragments: a raw fragment either deserializes to a Specification or is   *)
(* rejected by serde_json::from_str.                                       *)
(***************************************************************************)
Fragment(methods, schemas, errors) ==
  [wellformed |-> TRUE, spec |-> Specification(methods, schemas, errors)]

Malformed ==
  [wellformed |-> FALSE, spec |-> Specification(<<>>, <<>>, <<>>)]

MainBlocks ==
  Fragment(<<GetBlockMethod>>,
           <<Entry(FELT, FeltSchema), Entry(BLOCK_HASH, BlockHashSchema),
             Entry(BLOCK, BlockSchema)>>,
           <<Entry("BLOCK_NOT_FOUND", ErrorType(24, "Block not found"))>>)

MainStatus ==
  Fragment(<<GetBlockMethod, BlockNumberMethod>>,
           <<Entry(FELT, FeltSchema), Entry(TXN_STATUS, TxnStatusSchema)>>,
           <<>>)

MainEmpty == Fragment(<<>>, <<>>, <<>>)

SecEmpty == Fragment(<<>>, <<>>, <<>>)

\* as the write fragments do: names of the main fragment re-declared as $ref
SecRefs ==
  Fragment(<<AddInvokeMethod>>,
           <<Entry(FELT, Reference(Ptr(FELT), "")), Entry(TXN, TxnSchema)>>,
           <<Entry("BLOCK_NOT_FOUND", ErrorType(24, "Unknown block")),
             Entry("CLASS_HASH_NOT_FOUND", ErrorType(28, "Class hash not found"))>>)

\* TXN_STATUS as in MainStatus, FELT with another description, TXN as a
\* boolean
SecOtherFelt ==
  Fragment(<<TraceTransactionMethod>>,
           <<Entry(TXN_STATUS, TxnStatusSchema),
             Entry(FELT, StringPrimitive("Another field element")),
             Entry(TXN, BooleanPrimitive(""))>>,
           <<>>)

\* BLOCK_HASH, a $ref in MainBlocks, defined as a string
SecDefinesAlias ==
  Fragment(<<SubscribeEventsMethod, TraceTransactionMethod>>,
           <<Entry(BLOCK_HASH, StringPrimitive(""))>>,
           <<>>)

MainFragments == {MainBlocks, MainStatus, MainEmpty}

SecondaryFragments ==
  {SecEmpty, SecRefs, SecOtherFelt, SecDefinesAlias, Malformed}

\* main.rs RawSpecs: ws is <<>> (None) or <<fragment>> (Some)
RawSpecs ==
  [main : MainFragments, write : SecondaryFragments,
   trace : SecondaryFragments,
   ws : {<<>>} \cup {<<f>> : f \in SecondaryFragments}]

(***************************************************************************)
(* RawSpecs::parse_full (main.rs)                                          *)
(***************************************************************************)
\* faulty variant: bodies of the same kind are taken to be identical
schema_mismatch_kinds_only(value, existing) ==
  value.kind # "Ref" /\ value.kind # existing.kind

\* faulty variant: the test for Ref is made on the accumulated entry
schema_mismatch_existing_ref(value, existing) ==
  existing.kind # "Ref" /\ value # existing

\* the occupied-entry test: the incoming value is not a Ref and differs
schema_mismatch(value, existing) == value.kind # "Ref" /\ value # existing

\* faulty variant: the additional methods are put in front
append_methods_in_front(methods, additional) == additional \o methods

\* specs.methods.append(&mut additional_specs.methods)
append_methods(methods, additional) == methods \o additional

\* the loop over additional_specs.components.schemas; key names the entry
\* that made it bail
RECURSIVE merge_schemas(_, _)
merge_schemas(schemas, additional) ==
  IF additional = <<>>
  THEN [ok |-> TRUE, key |-> <<>>, schemas |-> schemas]
  ELSE LET e == Head(additional)
       IN  IF contains_key(schemas, e.key)
           THEN IF schema_mismatch(e.value, get(schemas, e.key))
                THEN [ok |-> FALSE, key |-> e.key, schemas |-> <<>>]
                ELSE merge_schemas(schemas, Tail(additional))
           ELSE merge_schemas(Append(schemas, e), Tail(additional))

\* the loop over additional_specs.components.errors: vacant entries only
RECURSIVE merge_errors(_, _)
merge_errors(errors, additional) ==
  IF additional = <<>> THEN errors
  ELSE LET e == Head(additional)
       IN  merge_errors(IF contains_key(errors, e.key) THEN errors
                        ELSE Append(errors, e),
                        Tail(additional))

ParseResult(ok, error, key, spec) ==
  [ok |-> ok, error |-> error, key |-> key, spec |-> spec]

NoSpecification == Specification(<<>>, <<>>, <<>>)

\* the loop over [write_specs, trace_specs, ws_specs]
RECURSIVE aggregate(_, _)
aggregate(specs, additional_specs) ==
  IF additional_specs = <<>>
  THEN ParseResult(TRUE, "", <<>>, specs)
  ELSE LET a == Head(additional_specs)
           merged == merge_schemas(specs.schemas, a.schemas)
       IN  IF ~merged.ok
           THEN ParseResult(FALSE, "duplicate entries must be ref or identical",
                            merged.key, NoSpecification)
           ELSE aggregate(
                  Specification(append_methods(specs.methods, a.methods),
                                merged.schemas,
                                merge_errors(specs.errors, a.errors)),
                  Tail(additional_specs))

\* the ws fragment, or the mock specification when there is none
ws_fragment(self) == IF self.ws = <<>> THEN SecEmpty ELSE self.ws[1]

fragments(self) == <<self.main, self.write, self.trace, ws_fragment(self)>>

parse_full(self) ==
  IF \E i \in 1..4 : ~fragments(self)[i].wellformed
  THEN ParseResult(FALSE, "serde_json", <<>>, NoSpecification)
  ELSE aggregate(self.main.spec,
                 <<self.write.spec, self.trace.spec, ws_fragment(self).spec>>)

(***************************************************************************)
(* Protobuf IR (types.rs).  Options are <<>> (None) or <<v>> (Some(v));     *)
(* a comment is the description text, "" when there is none.               *)
(***************************************************************************)
ProtoFieldType(tag, type_name) == [tag |-> tag, name |-> type_name]

ProtoField(field_name, field_type, number, json_name, comment, optional, repeated, oneof_name) ==
  [name |-> field_name, field_type |-> field_type, number |-> number,
   json_name |-> json_name, comment |-> comment, optional |-> optional,
   repeated |-> repeated, oneof_name |-> oneof_name]

ProtoOneof(oneof_name, fields) == [name |-> oneof_name, fields |-> fields]

ProtoMessage(message_name, fields, oneofs, comment) ==
  [name |-> message_name, fields |-> fields, oneofs |-> oneofs,
   comment |-> comment]

ProtoEnumValue(value_name, number) == [name |-> value_name, number |-> number]

ProtoEnum(enum_name, values, comment) ==
  [name |-> enum_name, values |-> values, comment |-> comment]

(***************************************************************************)
(* TypeResolver (types.rs)                                                 *)
(***************************************************************************)
\* types.rs schema_to_proto_field_type_impl
RECURSIVE schema_to_proto_field_type_impl(_)
schema_to_proto_field_type_impl(schema) ==
  CASE schema.kind = "String" -> ProtoFieldType("String", <<>>)
    [] schema.kind = "Integer" -> ProtoFieldType("Int64", <<>>)
    [] schema.kind = "Boolean" -> ProtoFieldType("Bool", <<>>)
    [] schema.kind = "Array" -> schema_to_proto_field_type_impl(schema.sub[1])
    [] schema.kind = "Object" ->
         ProtoFieldType("Message", <<"O","b","j","e","c","t">>)
    [] schema.kind = "Ref" ->
         ProtoFieldType("Message", to_proto_type_name(name(schema)))
    [] schema.kind = "OneOf" -> ProtoFieldType("Any", <<>>)
    [] schema.kind = "AllOf" -> ProtoFieldType("Message", <<"A","l","l","O","f">>)

Value == <<"v","a","l","u","e">>

\* the loop over obj.properties, field_number being the counter of the
\* enclosing function when the loop is entered

\* faulty variant: json_name carries the converted name
object_fields_json_converted(obj, field_number) ==
  [i \in DOMAIN obj.names |->
     ProtoField(to_proto_name(obj.names[i]),
                schema_to_proto_field_type_impl(obj.sub[i]),
                field_number + i - 1,
                <<to_proto_name(obj.names[i])>>,
                obj.sub[i].description,
                obj.names[i] \notin {obj.required[r] : r \in DOMAIN obj.required},
                FALSE,
                <<>>)]

object_fields(obj, field_number) ==
  [i \in DOMAIN obj.names |->
     LET field_name == obj.names[i]
         field_schema == obj.sub[i]
         is_required == \E r \in DOMAIN obj.required :
                           obj.required[r] = field_name
     IN  ProtoField(to_proto_name(field_name),
                    schema_to_proto_field_type_impl(field_schema),
                    field_number + i - 1,
                    <<field_name>>,
                    field_schema.description,
                    ~is_required,
                    FALSE,
                    <<>>)]

\* faulty variant: the field counter starts at the number of properties
convert_object_to_message_misnumbered(proto_name, obj) ==
  ProtoMessage(proto_name, object_fields(obj, Len(obj.names)), <<>>,
               obj.description)

convert_object_to_message(proto_name, obj) ==
  ProtoMessage(proto_name, object_fields(obj, 1), <<>>, obj.description)

RECURSIVE oneof_fields(_, _, _)
oneof_fields(oneof, i, field_number) ==
  IF i > Len(oneof.sub) THEN <<>>
  ELSE LET variant_schema == oneof.sub[i]
       IN  <<ProtoField(<<"v","a","r","i","a","n","t","_">> \o to_string(i),
                        schema_to_proto_field_type_impl(variant_schema),
                        field_number,
                        <<>>,
                        variant_schema.description,
                        FALSE,
                        FALSE,
                        <<Value>>)>>
           \o oneof_fields(oneof, i + 1, field_number + 1)

\* faulty variant: the variant fields are not put into a group
convert_oneof_to_message_ungrouped(proto_name, oneof) ==
  ProtoMessage(proto_name, oneof_fields(oneof, 1, 1), <<>>, oneof.description)

convert_oneof_to_message(proto_name, oneof) ==
  LET fields == oneof_fields(oneof, 1, 1)
  IN  ProtoMessage(proto_name, fields, <<ProtoOneof(Value, fields)>>,
                   oneof.description)

\* the loop over allof.all_of, from part i on
RECURSIVE allof_fields(_, _, _)
allof_fields(allof, i, field_number) ==
  IF i > Len(allof.sub) THEN <<>>
  ELSE LET schema == allof.sub[i]
       IN  CASE schema.kind = "Object" ->
                  object_fields(schema, field_number)
                    \o allof_fields(allof, i + 1,
                                    field_number + Len(schema.names))
             [] schema.kind = "Ref" ->
                  <<ProtoField(to_proto_name(name(schema)),
                               ProtoFieldType("Message",
                                              to_proto_type_name(name(schema))),
                               field_number,
                               <<>>,
                               schema.description,
                               FALSE,
                               FALSE,
                               <<>>)>>
                    \o allof_fields(allof, i + 1, field_number + 1)
             [] OTHER -> allof_fields(allof, i + 1, field_number)

\* faulty variant: only the object parts contribute
convert_allof_to_message_objects_only(proto_name, allof) ==
  ProtoMessage(proto_name,
               allof_fields([allof EXCEPT !.sub =
                               SelectSeq(@, LAMBDA part : part.kind = "Object")],
                            1, 1),
               <<>>, allof.description)

convert_allof_to_message(proto_name, allof) ==
  ProtoMessage(proto_name, allof_fields(allof, 1, 1), <<>>, allof.description)

str_replace(s, from, to) == [i \in DOMAIN s |-> IF s[i] = from THEN to ELSE s[i]]

\* faulty variant: a '-' is kept in the name of a value
convert_string_enum_to_enum_hyphens_kept(proto_name, values, description) ==
  ProtoEnum(proto_name,
            [i \in DOMAIN values |->
               ProtoEnumValue(str_to_uppercase(values[i]), i - 1)],
            description)

convert_string_enum_to_enum(proto_name, values, description) ==
  ProtoEnum(proto_name,
            [i \in DOMAIN values |->
               ProtoEnumValue(str_replace(str_to_uppercase(values[i]), "-", "_"),
                              i - 1)],
            description)

\* the one-field message of a String without enum and of the other primitives
wrapper_message(proto_name, field_type, description) ==
  ProtoMessage(proto_name,
               <<ProtoField(Value, field_type, 1, <<>>, description, FALSE,
                            FALSE, <<>>)>>,
               <<>>, description)

convert_primitive_to_wrapper(proto_name, schema) ==
  wrapper_message(proto_name, schema_to_proto_field_type_impl(schema),
                  schema.description)

\* HashMap::insert
insert(map, key, value) ==
  [k \in DOMAIN map \cup {key} |-> IF k = key THEN value ELSE map[k]]

EmptyMap == [k \in {} |-> {}]

\* TypeResolver::new; hasher is the RandomState of its hash maps
TypeResolver(hasher) ==
  [hasher |-> hasher, resolved_types |-> EmptyMap,
   resolved_enums |-> EmptyMap, type_dependencies |-> EmptyMap]

register_type_name(self, schema_name) ==
  [self EXCEPT !.type_dependencies = insert(@, schema_name, {})]

resolve_schema_type(self, schema_name, schema) ==
  LET proto_name == to_proto_type_name(schema_name)
  IN  CASE schema.kind = "Object" ->
             [self EXCEPT !.resolved_types =
                insert(@, schema_name,
                       convert_object_to_message(proto_name, schema))]
        [] schema.kind = "String" /\ schema.hasEnum ->
             [self EXCEPT !.resolved_enums =
                insert(@, schema_name,
                       convert_string_enum_to_enum(proto_name, schema.enum,
                                                   schema.description))]
        [] schema.kind = "String" /\ ~schema.hasEnum ->
             [self EXCEPT !.resolved_types =
                insert(@, schema_name,
                       wrapper_message(proto_name,
                                       ProtoFieldType("String", <<>>),
                                       schema.description))]
        [] schema.kind = "OneOf" ->
             [self EXCEPT !.resolved_types =
                insert(@, schema_name,
                       convert_oneof_to_message(proto_name, schema))]
        [] schema.kind = "AllOf" ->
             [self EXCEPT !.resolved_types =
                insert(@, schema_name,
                       convert_allof_to_message(proto_name, schema))]
        [] schema.kind = "Ref" -> self
        [] OTHER ->
             [self EXCEPT !.resolved_types =
                insert(@, schema_name,
                       convert_primitive_to_wrapper(proto_name, schema))]

(***************************************************************************)
(* Display of the IR (types.rs): the text of a field type, the line of a   *)
(* regular field of a message, and the lines of a message and of an enum   *)
(***************************************************************************)
field_type_text(field_type) ==
  CASE field_type.tag = "String" -> <<"s","t","r","i","n","g">>
    [] field_type.tag = "Int32" -> <<"i","n","t","3","2">>
    [] field_type.tag = "Int64" -> <<"i","n","t","6","4">>
    [] field_type.tag = "Uint64" -> <<"u","i","n","t","6","4">>
    [] field_type.tag = "Bool" -> <<"b","o","o","l">>
    [] field_type.tag = "Message" -> field_type.name
    [] field_type.tag = "Enum" -> field_type.name
    [] field_type.tag = "Any" -> <<"g","o","o","g","l","e",".","p","r","o","t","o","b","u","f",".","A","n","y">>

field_line(field) ==
  <<" "," ">>
  \o (IF field.repeated THEN <<"r","e","p","e","a","t","e","d"," ">>
      ELSE IF field.optional THEN <<"o","p","t","i","o","n","a","l"," ">> ELSE <<>>)
  \o field_type_text(field.field_type) \o <<" ">> \o field.name
  \o <<" ","="," ">> \o to_string(field.number)
  \o (IF field.json_name # <<>>
      THEN <<" ","[","j","s","o","n","_","n","a","m","e"," ","="," ","\"">> \o field.json_name[1] \o <<"\"","]">>
      ELSE <<>>)
  \o <<";">>

\* writer.rs format_comment, for a text of one trimmed line
format_comment(text, indent) ==
  [i \in 1..indent |-> " "] \o <<"/","/"," ">> \o text

\* Display for ProtoMessage, as the lines it writes; a comment taken from a
\* description is one token of text
message_lines(message) ==
  LET member_lines(field) ==
        (IF field.comment # "" THEN <<format_comment(<<field.comment>>, 4)>>
         ELSE <<>>)
        \o <<<<" "," "," "," ">> \o field_type_text(field.field_type) \o <<" ">>
             \o field.name \o <<" ","="," ">> \o to_string(field.number)
             \o (IF field.json_name # <<>>
                 THEN <<" ","[","j","s","o","n","_","n","a","m","e"," ","="," ","\"">> \o field.json_name[1] \o <<"\"","]">>
                 ELSE <<>>)
             \o <<";">>>>
      oneof_lines(oneof) ==
        <<<<" "," ","o","n","e","o","f"," ">> \o oneof.name \o <<" ","{">>>>
        \o concat([i \in DOMAIN oneof.fields |-> member_lines(oneof.fields[i])])
        \o <<<<" "," ","}">>>>
      regular_lines(field) ==
        IF field.oneof_name # <<>> THEN <<>>
        ELSE (IF field.comment # ""
              THEN <<format_comment(<<field.comment>>, 2)>> ELSE <<>>)
             \o <<field_line(field)>>
  IN  (IF message.comment # "" THEN <<format_comment(<<message.comment>>, 0)>>
       ELSE <<>>)
      \o <<<<"m","e","s","s","a","g","e"," ">> \o message.name \o <<" ","{">>>>
      \o concat([i \in DOMAIN message.oneofs |-> oneof_lines(message.oneofs[i])])
      \o concat([i \in DOMAIN message.fields |-> regular_lines(message.fields[i])])
      \o <<<<"}">>>>

\* Display for ProtoEnum
enum_lines(proto_enum) ==
  (IF proto_enum.comment # "" THEN <<format_comment(<<proto_enum.comment>>, 0)>>
   ELSE <<>>)
  \o <<<<"e","n","u","m"," ">> \o proto_enum.name \o <<" ","{">>>>
  \o [i \in DOMAIN proto_enum.values |->
        <<" "," ">> \o proto_enum.values[i].name \o <<" ","="," ">>
        \o to_string(proto_enum.values[i].number) \o <<";">>]
  \o <<<<"}">>>>

(***************************************************************************)
(* Iteration order of std::collections::HashMap.  The order of values() is *)
(* unspecified: it depends on the RandomState the map was created with.     *)
(* The model draws the RandomState from HashSeeds when the resolver is      *)
(* created and orders the keys by a seeded hash; two seeds order the same   *)
(* keys differently.                                                       *)
(***************************************************************************)
NumHashSeeds == 2

HashSeeds == 0..(NumHashSeeds - 1)

HashModulus == 101

char_code(c) ==
  IF is_lowercase(c) THEN CHOOSE i \in DOMAIN LowerChars : LowerChars[i] = c
  ELSE IF is_uppercase(c)
       THEN 26 + CHOOSE i \in DOMAIN UpperChars : UpperChars[i] = c
       ELSE 53

RECURSIVE key_sum(_)
key_sum(key) ==
  IF key = <<>> THEN 0
  ELSE (char_code(Head(key)) * Len(key) + key_sum(Tail(key))) % HashModulus

hash(hasher, key) ==
  (key_sum(key) * (IF hasher = 0 THEN 1 ELSE HashModulus - hasher))
    % HashModulus

\* the keys of a map in the order its iterator yields them
RECURSIVE iteration_order(_, _)
iteration_order(hasher, map_keys) ==
  IF map_keys = {} THEN <<>>
  ELSE LET first == CHOOSE k \in map_keys :
                      \A o \in map_keys : hash(hasher, k) <= hash(hasher, o)
       IN  <<first>> \o iteration_order(hasher, map_keys \ {first})

\* HashMap::values().cloned().collect()
values(hasher, map) ==
  LET order == iteration_order(hasher, DOMAIN map)
  IN  [i \in DOMAIN order |-> map[order[i]]]

(***************************************************************************)
(* TypeResolver::resolve_types and ProtoGenerator::generate                *)
(***************************************************************************)
RECURSIVE register_all(_, _)
register_all(self, schemas) ==
  IF schemas = <<>> THEN self
  ELSE register_all(register_type_name(self, Head(schemas).key), Tail(schemas))

RECURSIVE resolve_all(_, _)
resolve_all(self, schemas) ==
  IF schemas = <<>> THEN self
  ELSE resolve_all(resolve_schema_type(self, Head(schemas).key,
                                       Head(schemas).value),
                   Tail(schemas))

\* for now all types are put in common
organize_types_by_service(self) ==
  [common_messages |-> values(self.hasher, self.resolved_types),
   common_enums |-> values(self.hasher, self.resolved_enums)]

\* faulty variant: the names of the enums are left out
build_type_map_messages_only(self) ==
  [json_name \in DOMAIN self.resolved_types |-> to_proto_type_name(json_name)]

build_type_map(self) ==
  [json_name \in DOMAIN self.resolved_types \cup DOMAIN self.resolved_enums |->
     to_proto_type_name(json_name)]

\* the resolver after resolve_types(specs)
resolved(self, specification) ==
  resolve_all(register_all(self, specification.schemas), specification.schemas)

\* the TypeResolution resolve_types returns; no step of it returns Err
type_resolution(self) ==
  LET organized == organize_types_by_service(self)
  IN  [ok |-> TRUE,
       common_types |-> organized.common_messages,
       common_enums |-> organized.common_enums,
       type_map |-> build_type_map(self)]

(***************************************************************************)
(* ServiceGenerator (service.rs)                                           *)
(***************************************************************************)
\* str::contains(pattern)
contains(s, pattern) ==
  \E i \in 0..(Len(s) - Len(pattern)) : SubSeq(s, i + 1, i + Len(pattern)) = pattern

\* str::strip_prefix(prefix): <<>> (None) or <<rest>> (Some(rest))
strip_prefix(s, prefix) ==
  IF Len(s) >= Len(prefix) /\ SubSeq(s, 1, Len(prefix)) = prefix
  THEN <<SubSeq(s, Len(prefix) + 1, Len(s))>>
  ELSE <<>>

starknet_ == <<"s","t","a","r","k","n","e","t","_">>

\* faulty variant: the rest of a word keeps its case
snake_to_pascal_case_rest_kept(snake_str) ==
  LET words == split(snake_str, "_")
  IN  concat([i \in DOMAIN words |->
                IF words[i] = <<>> THEN <<>>
                ELSE <<to_uppercase(Head(words[i]))>> \o Tail(words[i])])

snake_to_pascal_case(snake_str) ==
  LET words == split(snake_str, "_")
  IN  concat([i \in DOMAIN words |->
                IF words[i] = <<>> THEN <<>>
                ELSE <<to_uppercase(Head(words[i]))>>
                     \o str_to_lowercase(Tail(words[i]))])

\* faulty variant: the prefix is stripped and the case is left as it is
method_name_to_rpc_name_prefix_only(method_name) ==
  LET stripped == strip_prefix(method_name, starknet_)
  IN  IF stripped # <<>> THEN stripped[1] ELSE method_name

method_name_to_rpc_name(method_name) ==
  LET stripped == strip_prefix(method_name, starknet_)
      name_without_prefix == IF stripped # <<>> THEN stripped[1] ELSE method_name
  IN  IF contains(name_without_prefix, <<"_">>)
      THEN snake_to_pascal_case(name_without_prefix)
      ELSE IF name_without_prefix = <<>> THEN <<>>
      ELSE <<to_uppercase(Head(name_without_prefix))>> \o Tail(name_without_prefix)

\* faulty variant: five parameters already make a method client-streaming
determine_streaming_type_from_five(method) ==
  <<contains(method.name, <<"b","a","t","c","h">>) \/ contains(method.name, <<"m","u","l","t","i">>)
      \/ Len(method.params) >= 5,
    contains(method.name, <<"s","u","b","s","c","r","i","b","e">>) \/ contains(method.name, <<"s","t","r","e","a","m">>)
      \/ contains(method.name, <<"e","v","e","n","t","s">>) \/ contains(method.name, <<"l","o","g","s">>)>>

\* <<client_streaming, server_streaming>>
determine_streaming_type(method) ==
  <<contains(method.name, <<"b","a","t","c","h">>) \/ contains(method.name, <<"m","u","l","t","i">>)
      \/ Len(method.params) > 5,
    contains(method.name, <<"s","u","b","s","c","r","i","b","e">>) \/ contains(method.name, <<"s","t","r","e","a","m">>)
      \/ contains(method.name, <<"e","v","e","n","t","s">>) \/ contains(method.name, <<"l","o","g","s">>)>>

ProtoRpc(rpc_name, request_type, response_type, client_streaming, server_streaming) ==
  [name |-> rpc_name, request_type |-> request_type,
   response_type |-> response_type, client_streaming |-> client_streaming,
   server_streaming |-> server_streaming]

ProtoService(service_name, rpcs, comment) ==
  [name |-> service_name, rpcs |-> rpcs, comment |-> comment]

Request == <<"R","e","q","u","e","s","t">>

Response == <<"R","e","s","p","o","n","s","e">>

\* the rpc comment (the method's description or summary) is not modelled:
\* Method carries neither
convert_method_to_rpc(method) ==
  LET rpc_name == method_name_to_rpc_name(method.name)
      streaming == determine_streaming_type(method)
  IN  ProtoRpc(rpc_name, rpc_name \o Request, rpc_name \o Response,
               streaming[1], streaming[2])

generate_from_methods(service_name, methods) ==
  ProtoService(service_name,
               [i \in DOMAIN methods |-> convert_method_to_rpc(methods[i])],
               <<"G","e","n","e","r","a","t","e","d"," ","g","R","P","C"," ","s","e","r","v","i","c","e"," ","f","o","r"," ","S","t","a","r","k","n","e","t"," ">> \o service_name)

\* service.rs schema_to_proto_field_type: the alias table maps a reference
\* to a proto scalar, any other reference to a message qualified with a
\* package written into the code
CommonPrefix == <<"s","t","a","r","k","n","e","t",".","v","0","_","8","_","1",".","c","o","m","m","o","n",".">>

StringAliases ==
  {<<"F","E","L","T">>, <<"T","X","N","_","H","A","S","H">>, <<"B","L","O","C","K","_","H","A","S","H">>, <<"A","D","D","R","E","S","S">>, <<"C","L","A","S","S","_","H","A","S","H">>,
   <<"S","T","O","R","A","G","E","_","K","E","Y">>, <<"H","A","S","H","_","2","5","6">>, <<"u","1","2","8">>, <<"E","T","H","_","A","D","D","R","E","S","S">>}

Uint64Aliases == {<<"B","L","O","C","K","_","N","U","M","B","E","R">>, <<"N","U","M","_","A","S","_","H","E","X">>, <<"L","1","_","T","X","N","_","H","A","S","H">>, <<"u","6","4">>}

\* faulty variant: the alias table is matched without regard to case
reference_field_type_any_case(ref_name) ==
  IF \E alias \in StringAliases : str_to_uppercase(alias) = str_to_uppercase(ref_name)
  THEN ProtoFieldType("String", <<>>)
  ELSE IF \E alias \in Uint64Aliases : str_to_uppercase(alias) = str_to_uppercase(ref_name)
  THEN ProtoFieldType("Uint64", <<>>)
  ELSE ProtoFieldType("Message", CommonPrefix \o to_proto_type_name(ref_name))

\* the match on ref_name
reference_field_type(ref_name) ==
  IF ref_name \in StringAliases THEN ProtoFieldType("String", <<>>)
  ELSE IF ref_name \in Uint64Aliases THEN ProtoFieldType("Uint64", <<>>)
  ELSE IF ref_name = <<"O","b","j","e","c","t">>
  THEN ProtoFieldType("Message", CommonPrefix \o <<"O","b","j","e","c","t">>)
  ELSE IF ref_name \in {<<"N","e","s","t","e","d","C","a","l","l">>, <<"N","E","S","T","E","D","_","C","A","L","L">>}
  THEN ProtoFieldType("Message", CommonPrefix \o <<"F","u","n","c","t","i","o","n","I","n","v","o","c","a","t","i","o","n">>)
  ELSE IF ref_name \in {<<"B","r","o","a","d","c","a","s","t","e","d","I","n","v","o","k","e","T","x","n">>, <<"B","R","O","A","D","C","A","S","T","E","D","_","I","N","V","O","K","E","_","T","X","N">>,
                        <<"B","R","O","A","D","C","A","S","T","E","D","_","I","N","V","O","K","E","_","T","X","N","_","V","3">>}
  THEN ProtoFieldType("Message", CommonPrefix \o <<"I","n","v","o","k","e","T","x","n","V","3","C","o","n","t","e","n","t">>)
  ELSE IF ref_name \in {<<"B","r","o","a","d","c","a","s","t","e","d","D","e","c","l","a","r","e","T","x","n">>, <<"B","R","O","A","D","C","A","S","T","E","D","_","D","E","C","L","A","R","E","_","T","X","N">>,
                        <<"B","R","O","A","D","C","A","S","T","E","D","_","D","E","C","L","A","R","E","_","T","X","N","_","V","3">>}
  THEN ProtoFieldType("Message", CommonPrefix \o <<"D","e","c","l","a","r","e","T","x","n","V","3","C","o","n","t","e","n","t">>)
  ELSE IF ref_name \in {<<"B","r","o","a","d","c","a","s","t","e","d","D","e","p","l","o","y","A","c","c","o","u","n","t","T","x","n">>,
                        <<"B","R","O","A","D","C","A","S","T","E","D","_","D","E","P","L","O","Y","_","A","C","C","O","U","N","T","_","T","X","N">>,
                        <<"B","R","O","A","D","C","A","S","T","E","D","_","D","E","P","L","O","Y","_","A","C","C","O","U","N","T","_","T","X","N","_","V","3">>}
  THEN ProtoFieldType("Message", CommonPrefix \o <<"D","e","p","l","o","y","A","c","c","o","u","n","t","T","x","n","V","3","C","o","n","t","e","n","t">>)
  ELSE ProtoFieldType("Message", CommonPrefix \o to_proto_type_name(ref_name))

RECURSIVE schema_to_proto_field_type(_)
schema_to_proto_field_type(schema) ==
  CASE schema.kind = "String" ->
         IF schema.hasEnum THEN ProtoFieldType("Enum", <<"S","t","r","i","n","g">>)
         ELSE ProtoFieldType("String", <<>>)
    [] schema.kind = "Integer" -> ProtoFieldType("Int64", <<>>)
    [] schema.kind = "Boolean" -> ProtoFieldType("Bool", <<>>)
    [] schema.kind = "Array" -> schema_to_proto_field_type(schema.sub[1])
    [] schema.kind = "Object" ->
         ProtoFieldType("Message", CommonPrefix \o <<"O","b","j","e","c","t">>)
    [] schema.kind = "Ref" -> reference_field_type(name(schema))
    [] schema.kind = "OneOf" ->
         ProtoFieldType("Message", CommonPrefix \o <<"O","b","j","e","c","t">>)
    [] schema.kind = "AllOf" ->
         ProtoFieldType("Message", CommonPrefix \o <<"A","l","l","O","f">>)

\* the loop over method.params, from parameter i on
RECURSIVE request_fields(_, _, _)
request_fields(method, i, field_number) ==
  IF i > Len(method.params) THEN <<>>
  ELSE LET param == method.params[i]
       IN  <<ProtoField(to_proto_name(param.name),
                        schema_to_proto_field_type(param.schema),
                        field_number,
                        <<param.name>>,
                        "",
                        ~param.required,
                        FALSE,
                        <<>>)>>
           \o request_fields(method, i + 1, field_number + 1)

\* faulty variant: the field counter is not advanced
generate_request_message_one_number(rpc_name, method) ==
  ProtoMessage(rpc_name \o Request,
               [i \in DOMAIN method.params |->
                  request_fields(method, i, 1)[1]],
               <<>>, <<"R","e","q","u","e","s","t"," ","m","e","s","s","a","g","e"," ","f","o","r"," ">> \o method.name)

generate_request_message(rpc_name, method) ==
  ProtoMessage(rpc_name \o Request, request_fields(method, 1, 1), <<>>,
               <<"R","e","q","u","e","s","t"," ","m","e","s","s","a","g","e"," ","f","o","r"," ">> \o method.name)

result == <<"r","e","s","u","l","t">>

error == <<"e","r","r","o","r">>

ErrorField ==
  ProtoField(error, ProtoFieldType("Message", <<"E","r","r","o","r">>), 2, <<error>>,
             "Error information if the request failed", TRUE, FALSE, <<>>)

\* faulty variant: the error field takes the first free number
generate_response_message_renumbered(rpc_name, method) ==
  ProtoMessage(rpc_name \o Response,
               (IF method.result # <<>>
                THEN <<ProtoField(result,
                                  schema_to_proto_field_type(method.result[1]),
                                  1, <<result>>, "", FALSE, FALSE, <<>>)>>
                ELSE <<>>)
               \o <<[ErrorField EXCEPT !.number = IF method.result # <<>> THEN 2 ELSE 1]>>,
               <<>>, <<"R","e","s","p","o","n","s","e"," ","m","e","s","s","a","g","e"," ","f","o","r"," ">> \o method.name)

generate_response_message(rpc_name, method) ==
  ProtoMessage(rpc_name \o Response,
               (IF method.result # <<>>
                THEN <<ProtoField(result,
                                  schema_to_proto_field_type(method.result[1]),
                                  1, <<result>>, "", FALSE, FALSE, <<>>)>>
                ELSE <<>>)
               \o <<ErrorField>>,
               <<>>, <<"R","e","s","p","o","n","s","e"," ","m","e","s","s","a","g","e"," ","f","o","r"," ">> \o method.name)

generate_request_response_messages(method) ==
  LET rpc_name == method_name_to_rpc_name(method.name)
  IN  <<generate_request_message(rpc_name, method),
        generate_response_message(rpc_name, method)>>

(***************************************************************************)
(* ProtoConfig, ProtoWriter and the files of ProtoGenerator::generate       *)
(* (mod.rs, writer.rs)                                                     *)
(***************************************************************************)
\* ProtoConfig::new
ProtoConfig(version) ==
  [package_prefix |-> <<"s","t","a","r","k","n","e","t">>,
   version |-> str_replace(version, ".", "_"),
   output_dir |-> <<"p","r","o","t","o">>]

\* ProtoConfig::main_package, write_package, trace_package, ws_package and
\* common_package: the package of a surface
package(config, surface) ==
  config.package_prefix \o <<".">> \o config.version \o <<".">> \o surface

\* faulty variant: the main surface also leaves out the add and invoke methods
filter_main_methods_disjoint(methods) ==
  SelectSeq(methods,
               LAMBDA m : /\ ~contains(m.name, <<"w","r","i","t","e">>)
                          /\ ~contains(m.name, <<"a","d","d">>)
                          /\ ~contains(m.name, <<"i","n","v","o","k","e">>)
                          /\ ~contains(m.name, <<"t","r","a","c","e">>)
                          /\ ~contains(m.name, <<"s","u","b","s","c","r","i","b","e">>))

filter_main_methods(methods) ==
  SelectSeq(methods,
               LAMBDA m : /\ ~contains(m.name, <<"w","r","i","t","e">>)
                          /\ ~contains(m.name, <<"t","r","a","c","e">>)
                          /\ ~contains(m.name, <<"s","u","b","s","c","r","i","b","e">>))

filter_write_methods(methods) ==
  SelectSeq(methods,
            LAMBDA m : \/ contains(m.name, <<"w","r","i","t","e">>)
                       \/ contains(m.name, <<"a","d","d">>)
                       \/ contains(m.name, <<"i","n","v","o","k","e">>))

\* faulty variant: only the snake_case names of the trace surface pass
filter_trace_methods_snake_only(methods) ==
  SelectSeq(methods, LAMBDA m : contains(m.name, <<"t","r","a","c","e","_">>))

filter_trace_methods(methods) ==
  SelectSeq(methods, LAMBDA m : contains(m.name, <<"t","r","a","c","e">>))

filter_ws_methods(methods) ==
  SelectSeq(methods, LAMBDA m : contains(m.name, <<"s","u","b","s","c","r","i","b","e">>))

\* ProtoWriter::new.  The options are a function of the package alone and
\* are not kept in the record.
ProtoWriter(package_name) ==
  [package |-> package_name, imports |-> <<>>, messages |-> <<>>,
   enums |-> <<>>, services |-> <<>>]

add_import(writer, import) ==
  IF \E i \in DOMAIN writer.imports : writer.imports[i] = import
  THEN writer
  ELSE [writer EXCEPT !.imports = Append(@, import)]

add_message(writer, message) == [writer EXCEPT !.messages = Append(@, message)]

add_enum(writer, proto_enum) == [writer EXCEPT !.enums = Append(@, proto_enum)]

add_service(writer, service) == [writer EXCEPT !.services = Append(@, service)]

RECURSIVE add_imports(_, _)
add_imports(writer, imports) ==
  IF imports = <<>> THEN writer
  ELSE add_imports(add_import(writer, Head(imports)), Tail(imports))

\* the writer generate_common_proto renders
generate_common_proto(config, resolution) ==
  LET imported ==
        add_imports(ProtoWriter(package(config, <<"c","o","m","m","o","n">>)),
                    <<<<"g","o","o","g","l","e","/","p","r","o","t","o","b","u","f","/","a","n","y",".","p","r","o","t","o">>,
                      <<"g","o","o","g","l","e","/","p","r","o","t","o","b","u","f","/","t","i","m","e","s","t","a","m","p",".","p","r","o","t","o">>,
                      <<"g","o","o","g","l","e","/","p","r","o","t","o","b","u","f","/","d","u","r","a","t","i","o","n",".","p","r","o","t","o">>,
                      <<"g","o","o","g","l","e","/","p","r","o","t","o","b","u","f","/","e","m","p","t","y",".","p","r","o","t","o">>,
                      <<"g","o","o","g","l","e","/","p","r","o","t","o","b","u","f","/","w","r","a","p","p","e","r","s",".","p","r","o","t","o">>>>)
  IN  [imported EXCEPT !.messages = resolution.common_types,
                       !.enums = resolution.common_enums]

\* the writer generate_main_service_proto, generate_write_service_proto,
\* generate_trace_service_proto and generate_ws_service_proto render: the
\* import of common.proto, the service of the filtered methods, and the
\* types of the service, of which organize_types_by_service yields none

\* faulty variant: the writer of a service is given no import
generate_service_proto_unimported(config, package_name, service_name, methods) ==
  add_service(ProtoWriter(package_name),
              generate_from_methods(service_name, methods))

generate_service_proto(config, package_name, service_name, methods) ==
  add_service(add_import(ProtoWriter(package_name),
                         config.version \o <<"/","c","o","m","m","o","n",".","p","r","o","t","o">>),
              generate_from_methods(service_name, methods))

FileNames == {"common.proto", "main.proto", "write.proto", "trace.proto", "ws.proto"}

\* the files of generate, each as the writer whose text it is
generate_files(config, specification, resolution) ==
  [file \in FileNames |->
     CASE file = "common.proto" -> generate_common_proto(config, resolution)
       [] file = "main.proto" ->
            generate_service_proto(config, package(config, <<"m","a","i","n">>),
                                   <<"S","t","a","r","k","n","e","t","M","a","i","n","S","e","r","v","i","c","e">>,
                                   filter_main_methods(specification.methods))
       [] file = "write.proto" ->
            generate_service_proto(config, package(config, <<"w","r","i","t","e">>),
                                   <<"S","t","a","r","k","n","e","t","W","r","i","t","e","S","e","r","v","i","c","e">>,
                                   filter_write_methods(specification.methods))
       [] file = "trace.proto" ->
            generate_service_proto(config, package(config, <<"t","r","a","c","e">>),
                                   <<"S","t","a","r","k","n","e","t","T","r","a","c","e","S","e","r","v","i","c","e">>,
                                   filter_trace_methods(specification.methods))
       [] file = "ws.proto" ->
            generate_service_proto(config, package(config, <<"w","s">>),
                                   <<"S","t","a","r","k","n","e","t","W","s","S","e","r","v","i","c","e">>,
                                   filter_ws_methods(specification.methods))]

\* Display for ProtoService: the line of an rpc
rpc_line(rpc) ==
  <<" "," ","r","p","c"," ">> \o rpc.name \o <<"(">>
  \o (IF rpc.client_streaming THEN <<"s","t","r","e","a","m"," ">> ELSE <<>>)
  \o rpc.request_type \o <<")"," ","r","e","t","u","r","n","s"," ","(">>
  \o (IF rpc.server_streaming THEN <<"s","t","r","e","a","m"," ">> ELSE <<>>)
  \o rpc.response_type \o <<")",";">>

\* Display for ProtoService
service_lines(service) ==
  <<format_comment(service.comment, 0)>>
  \o <<<<"s","e","r","v","i","c","e"," ">> \o service.name \o <<" ","{">>>>
  \o [i \in DOMAIN service.rpcs |-> rpc_line(service.rpcs[i])]
  \o <<<<"}">>>>

\* ProtoWriter::new: the options, a function of the package; the segments of
\* the package are capitalised and joined for the C# and PHP namespaces
options(package_name) ==
  LET segments == split(package_name, ".")
      capitalized(s) == IF s = <<>> THEN <<>> ELSE <<to_uppercase(Head(s))>> \o Tail(s)
      joined[i \in 0..Len(segments)] ==
        [sep \in {<<".">>, <<"\\","\\">>} |->
           IF i = 0 THEN <<>>
           ELSE IF i = 1 THEN capitalized(segments[1])
           ELSE joined[i - 1][sep] \o sep \o capitalized(segments[i])]
  IN  <<<<"j","a","v","a","_","m","u","l","t","i","p","l","e","_","f","i","l","e","s"," ","="," ","t","r","u","e">>,
        <<"j","a","v","a","_","o","u","t","e","r","_","c","l","a","s","s","n","a","m","e"," ","="," ","\"","S","t","a","r","k","n","e","t","P","r","o","t","o","\"">>,
        <<"j","a","v","a","_","p","a","c","k","a","g","e"," ","="," ","\"","c","o","m",".">> \o str_replace(package_name, ".", "_") \o <<"\"">>,
        <<"g","o","_","p","a","c","k","a","g","e"," ","="," ","\"","g","i","t","h","u","b",".","c","o","m","/","c","a","r","t","r","i","d","g","e","-","g","g","/","s","t","a","r","k","n","e","t","-","g","r","p","c","-","c","o","d","e","g","e","n","/","g","o","/">>
          \o str_replace(package_name, ".", "/") \o <<"\"">>,
        <<"c","s","h","a","r","p","_","n","a","m","e","s","p","a","c","e"," ","="," ","\"","S","t","a","r","k","n","e","t",".">> \o joined[Len(segments)][<<".">>] \o <<"\"",";">>,
        <<"p","h","p","_","n","a","m","e","s","p","a","c","e"," ","="," ","\"","S","t","a","r","k","n","e","t","\\","\\">> \o joined[Len(segments)][<<"\\","\\">>] \o <<"\"",";">>>>

\* Display for ProtoWriter: the lines of the text, <<>> being an empty line

\* faulty variant: the messages are written before the enums
fmt_messages_first(writer) ==
  <<<<"s","y","n","t","a","x"," ","="," ","\"","p","r","o","t","o","3","\"",";">>, <<>>,
    <<"p","a","c","k","a","g","e"," ">> \o writer.package \o <<";">>, <<>>>>
  \o [i \in DOMAIN writer.imports |->
        <<"i","m","p","o","r","t"," ","\"">> \o writer.imports[i] \o <<"\"",";">>]
  \o (IF writer.imports # <<>> THEN <<<<>>>> ELSE <<>>)
  \o [i \in DOMAIN options(writer.package) |->
        <<"o","p","t","i","o","n"," ">> \o options(writer.package)[i] \o <<";">>]
  \o (IF options(writer.package) # <<>> THEN <<<<>>>> ELSE <<>>)
  \o concat([i \in DOMAIN writer.messages |->
               message_lines(writer.messages[i]) \o <<<<>>>>])
  \o concat([i \in DOMAIN writer.enums |->
               enum_lines(writer.enums[i]) \o <<<<>>>>])
  \o concat([i \in DOMAIN writer.services |->
               service_lines(writer.services[i]) \o <<<<>>>>])

fmt(writer) ==
  <<<<"s","y","n","t","a","x"," ","="," ","\"","p","r","o","t","o","3","\"",";">>, <<>>,
    <<"p","a","c","k","a","g","e"," ">> \o writer.package \o <<";">>, <<>>>>
  \o [i \in DOMAIN writer.imports |->
        <<"i","m","p","o","r","t"," ","\"">> \o writer.imports[i] \o <<"\"",";">>]
  \o (IF writer.imports # <<>> THEN <<<<>>>> ELSE <<>>)
  \o [i \in DOMAIN options(writer.package) |->
        <<"o","p","t","i","o","n"," ">> \o options(writer.package)[i] \o <<";">>]
  \o (IF options(writer.package) # <<>> THEN <<<<>>>> ELSE <<>>)
  \o concat([i \in DOMAIN writer.enums |->
               enum_lines(writer.enums[i]) \o <<<<>>>>])
  \o concat([i \in DOMAIN writer.messages |->
               message_lines(writer.messages[i]) \o <<<<>>>>])
  \o concat([i \in DOMAIN writer.services |->
               service_lines(writer.services[i]) \o <<<<>>>>])

(***************************************************************************)
(* The specifications handed to generate                                   *)
(***************************************************************************)
\* tests/integration_tests.rs create_test_specification
TestSpecification ==
  Specification(<<GetBlockMethod, AddInvokeMethod, SubscribeEventsMethod,
                  TraceTransactionMethod>>,
                <<Entry(FELT, FeltSchema), Entry(BLOCK_HASH, BlockHashSchema),
                  Entry(TXN_STATUS, TxnStatusSchema), Entry(BLOCK, BlockSchema)>>,
                <<>>)

\* tests/integration_tests.rs test_error_handling_in_generation
MinimalSpecification == Specification(<<>>, <<>>, <<>>)

\* methods whose names match no surface test, one, or several of them, in
\* lower case and in upper case
SurfaceMethods ==
  <<AddInvokeMethod,
    Method(<<"s","t","a","r","k","n","e","t","_","t","r","a","c","e","T","r","a","n","s","a","c","t","i","o","n">>, <<>>, <<>>),
    Method(<<"s","t","a","r","k","n","e","t","_","u","n","s","u","b","s","c","r","i","b","e">>, <<>>, <<BooleanPrimitive("")>>),
    Method(<<"s","t","a","r","k","n","e","t","_","s","u","b","s","c","r","i","b","e","_","t","r","a","c","e","_","w","r","i","t","e","s">>, <<>>, <<>>),
    Method(<<"s","t","a","r","k","n","e","t","_","s","i","m","u","l","a","t","e","I","n","v","o","k","e">>, <<>>, <<>>),
    Method(<<"s","t","a","r","k","n","e","t","_","i","n","v","o","k","e","F","u","n","c","t","i","o","n">>, <<>>, <<>>),
    Method(<<"s","t","a","r","k","n","e","t","_","g","e","t","S","t","o","r","a","g","e","A","t">>, <<>>, <<>>)>>

\* a table with an array property, a reference to an undefined name, a
\* oneOf, an allOf and an integer
TxnSpecification ==
  Specification(SurfaceMethods,
                <<Entry(TXN, TxnSchema),
                  Entry(BLOCK_ID,
                        OneOf(<<Reference(Ptr(BLOCK_HASH), ""),
                                IntegerPrimitive(""),
                                Reference(Ptr(FELT), "")>>)),
                  Entry(BLOCK,
                        AllOf(<<Reference(Ptr(TXN), ""),
                                ObjectPrimitive(<<block_number>>,
                                                <<IntegerPrimitive("")>>,
                                                <<>>, ""),
                                BooleanPrimitive("")>>)),
                  Entry(BLOCK_NUMBER, IntegerPrimitive(""))>>,
                <<>>)

TestSpecifications ==
  {TestSpecification, MinimalSpecification, TxnSpecification}

\* SpecVersion::to_version_string
V0_1_0 == <<"v","0","_","1","_","0">>

V0_8_1 == <<"v","0","_","8","_","1">>

\* the profiles of the registry the generation is run on: a version and the
\* raw fragments of that version
Profiles ==
  {[version |-> V0_1_0, main |-> MainBlocks, write |-> SecRefs,
    trace |-> SecEmpty, ws |-> <<>>],
   [version |-> V0_8_1, main |-> MainStatus, write |-> SecDefinesAlias,
    trace |-> SecRefs, ws |-> <<SecEmpty>>],
   [version |-> V0_8_1, main |-> MainBlocks, write |-> SecRefs,
    trace |-> SecOtherFelt, ws |-> <<>>]}

(***************************************************************************)
(* The methods handed to the service generator: names with and without the *)
(* prefix, in snake_case and camelCase, with and without the substrings    *)
(* the streaming and surface tests look for, in both cases; parameter      *)
(* lists of every length up to MaxParams                                   *)
(***************************************************************************)
MaxParams == 7

MethodNames ==
  {starknet_getBlock, starknet_addInvokeTransaction, starknet_subscribeEvents,
   trace_transaction, <<"g","e","t","_","b","l","o","c","k">>, <<"g","e","t","B","l","o","c","k">>, <<"s","t","a","r","k","n","e","t","_","g","e","t","_","b","l","o","c","k">>,
   <<"c","u","s","t","o","m","_","m","e","t","h","o","d","_","n","a","m","e">>, <<"s","t","a","r","k","n","e","t","_","g","e","t","B","l","o","c","k","W","i","t","h","T","x","H","a","s","h","e","s">>,
   <<"s","t","a","r","k","n","e","t","_","s","t","a","r","k","n","e","t","_","g","e","t","B","l","o","c","k">>, <<"S","t","a","r","k","n","e","t","_","g","e","t","B","l","o","c","k">>, <<"s","t","a","r","k","n","e","t","_">>,
   <<>>, <<"g","e","t","_","b","L","O","C","K">>, <<"s","t","a","r","k","n","e","t","_","g","e","t","B","a","t","c","h">>, <<"s","t","a","r","k","n","e","t","_","b","a","t","c","h","C","a","l","l">>,
   <<"s","t","a","r","k","n","e","t","_","m","u","l","t","i","C","a","l","l">>, <<"s","t","a","r","k","n","e","t","_","s","t","r","e","a","m","L","o","g","s">>, <<"s","t","a","r","k","n","e","t","_","l","o","g","s">>,
   <<"s","t","a","r","k","n","e","t","_","g","e","t","E","v","e","n","t","s">>, <<"s","t","a","r","k","n","e","t","_","e","v","e","n","t","s">>, <<"s","t","a","r","k","n","e","t","_","S","u","b","s","c","r","i","b","e">>}

\* the i-th parameter of a list; first_required tells which half is required
ParamAt(i, first_required) ==
  LET names == <<block_id, <<"i","n","c","l","u","d","e","T","x","s">>, <<"t","y","p","e">>, <<"c","o","n","t","r","a","c","t","_","a","d","d","r","e","s","s">>>>
      schemas == <<StringPrimitive("String parameter"),
                   Reference(Ptr(BLOCK), ""), IntegerPrimitive(""),
                   Reference(Ptr(FELT), ""),
                   ArrayPrimitive(Reference(Ptr(TXN), ""))>>
  IN  Param(IF i <= Len(names) THEN names[i] ELSE <<"p","a","r","a","m">> \o to_string(i),
            (i % 2 = 1) = first_required,
            schemas[((i - 1) % Len(schemas)) + 1])

ParamLists ==
  {[i \in 1..n |-> ParamAt(i, TRUE)] : n \in 0..MaxParams}
  \cup {[i \in 1..2 |-> ParamAt(i, FALSE)]}

Methods ==
  {Method(method_name, params, method_result) :
     method_name \in MethodNames, params \in ParamLists,
     method_result \in {<<>>, <<StringPrimitive("Result value")>>}}

\* the schemas schema_to_proto_field_type is applied to: a reference to
\* every identifier of the alias table, to identifiers that differ from them
\* in case only, to identifiers outside the table, and the other variants
FieldSchemas ==
  {Reference(Ptr(ref_name), "") :
     ref_name \in
       StringAliases \cup Uint64Aliases
       \cup {<<"f","e","l","t">>, <<"F","e","l","t">>, <<"U","6","4">>, <<"b","l","o","c","k","_","n","u","m","b","e","r">>, <<"F","E","L","T","_">>, BLOCK,
             TXN_STATUS, <<"O","b","j","e","c","t">>, <<"N","E","S","T","E","D","_","C","A","L","L">>, <<"B","R","O","A","D","C","A","S","T","E","D","_","I","N","V","O","K","E","_","T","X","N">>,
             <<"E","V","E","N","T">>}}
  \cup {StringPrimitive(""), StringEnum(<<PENDING, REJECTED>>, ""),
        IntegerPrimitive(""), BooleanPrimitive(""),
        ArrayPrimitive(StringPrimitive("")),
        ArrayPrimitive(Reference(Ptr(BLOCK), "")),
        EmptyObject,
        OneOf(<<Reference(Ptr(FELT), ""), IntegerPrimitive("")>>),
        AllOf(<<Reference(Ptr(BLOCK), "")>>)}

ServiceGenerator(service_name, config) ==
  [service_name |-> service_name, config |-> config]

(***************************************************************************)
(* The inputs of the conversions used on their own, as the tests of         *)
(* types.rs and writer.rs use them.  Sequences have at most MaxItems        *)
(* elements.                                                               *)
(***************************************************************************)
MaxItems == 3

\* the sequences of at most MaxItems elements of a set
SeqsOf(S) == UNION {[1..n -> S] : n \in 0..MaxItems}

\* What the conversions are called on.
\*   objects     every list of distinct property names (properties is an
\*               IndexMap) out of names that convert to different names and
\*               to the same name, a reserved word, and the name a reference
\*               to TXN converts to; none, the first, or the last two of
\*               them required, together with a name that is no property
\*   allofs      every list of parts out of two objects that share a
\*               property name with different requirements, references with
\*               and without a pointer path, and the shapes that are neither
\*   oneofs      every list of variants, and one of eleven variants
\*   enum_lists  values in lower, upper and mixed case, with and without '-'
\*   json_names  the names of the tests of to_proto_name, names that convert
\*               to the reserved words, and every name of at most MaxItems
\*               characters of lower-case and upper-case letters, a digit
\*               and '_'
ConversionInputs ==
  LET property_schema(property_name) ==
        CASE property_name = <<"b","l","o","c","k","N","u","m","b","e","r">> -> IntegerPrimitive("Block number")
          [] property_name = block_number -> Reference(Ptr(BLOCK_NUMBER), "")
          [] property_name = txnHash -> Reference(Ptr(TXN_HASH), "Hash")
          [] property_name = <<"t","y","p","e">> -> StringPrimitive("")
          [] property_name = <<"t","x","n">> -> ArrayPrimitive(StringPrimitive(""))
      parts ==
        {ObjectPrimitive(<<<<"b","l","o","c","k","N","u","m","b","e","r">>, txnHash>>,
                         <<IntegerPrimitive(""), Reference(Ptr(TXN_HASH), "")>>,
                         <<<<"b","l","o","c","k","N","u","m","b","e","r">>>>, ""),
         ObjectPrimitive(<<<<"b","l","o","c","k","N","u","m","b","e","r">>, <<"t","x","n">>>>,
                         <<StringPrimitive("Number"), BooleanPrimitive("")>>,
                         <<<<"t","x","n">>>>, "Second part"),
         Reference(Ptr(TXN), "The transaction"),
         Reference(<<"b","l","o","c","k","H","e","a","d","e","r">>, ""),
         OneOf(<<IntegerPrimitive(""), Reference(Ptr(FELT), "")>>),
         AllOf(<<ObjectPrimitive(<<calldata>>, <<StringPrimitive("")>>, <<>>, "")>>),
         BooleanPrimitive(""),
         StringPrimitive("Text")}
  IN  [objects |->
         {ObjectPrimitive(names,
                          [i \in DOMAIN names |-> property_schema(names[i])],
                          required,
                          IF Len(names) = 2 THEN "" ELSE "A test object") :
            names \in {s \in SeqsOf({<<"b","l","o","c","k","N","u","m","b","e","r">>, block_number, txnHash,
                                     <<"t","y","p","e">>, <<"t","x","n">>}) :
                         \A i, j \in DOMAIN s : i # j => s[i] # s[j]},
            required \in {<<>>, <<<<"b","l","o","c","k","N","u","m","b","e","r">>>>,
                          <<<<"i","d">>, <<"t","y","p","e">>, <<"t","x","n">>>>}},
       allofs |-> {AllOf(sub) : sub \in SeqsOf(parts)},
       oneofs |->
         {OneOf(variants) :
            variants \in SeqsOf({StringPrimitive("A string"),
                                 IntegerPrimitive(""),
                                 Reference(Ptr(BLOCK_HASH), ""),
                                 ArrayPrimitive(BooleanPrimitive("")),
                                 OneOf(<<BooleanPrimitive("")>>)})
                         \cup {[i \in 1..11 |-> IntegerPrimitive("")]}},
       enum_lists |->
         SeqsOf({<<"p","e","n","d","i","n","g">>, <<"a","c","c","e","p","t","e","d","-","o","n","-","l","2">>, REJECTED, <<"N","o","t","_","R","e","c","e","i","v","e","d">>}),
       json_names |->
         {<<"c","a","m","e","l","C","a","s","e">>, <<"P","a","s","c","a","l","C","a","s","e">>, <<"s","n","a","k","e","_","c","a","s","e">>, <<"t","y","p","e">>, <<"r","e","f">>,
          <<"b","l","o","c","k","N","u","m","b","e","r">>, <<"t","r","a","n","s","a","c","t","i","o","n","H","a","s","h">>, <<"T","y","p","e">>, <<"R","E","F">>, <<"t","Y","p","e">>,
          <<"r","e","F">>, <<"t","y","p","e","R","e","f">>, <<"t","y","p","e","_">>, <<"H","T","T","P","S","e","r","v","e","r">>, <<"g","e","t","L","1","G","a","s">>}
         \cup SeqsOf({"a", "b", "B", "C", "_", "1"})]

\* the items the tests of writer.rs add to a writer
WriterItems ==
  [imports |->
     {<<"g","o","o","g","l","e","/","p","r","o","t","o","b","u","f","/","a","n","y",".","p","r","o","t","o">>, <<"s","t","a","r","k","n","e","t","/","v","0","_","1","_","0","/","c","o","m","m","o","n",".","p","r","o","t","o">>},
   enums |->
     {convert_string_enum_to_enum(<<"T","r","a","n","s","a","c","t","i","o","n","S","t","a","t","u","s">>, <<PENDING, REJECTED>>,
                                  "Transaction status enumeration"),
      convert_string_enum_to_enum(<<"F","i","n","a","l","i","t","y">>, <<<<"a","c","c","e","p","t","e","d","-","o","n","-","l","2">>>>, "")},
   messages |->
     {convert_object_to_message(<<"T","r","a","n","s","a","c","t","i","o","n">>, TxnSchema),
      convert_oneof_to_message(<<"B","l","o","c","k","I","d">>,
                               OneOf(<<IntegerPrimitive("Number"),
                                       Reference(Ptr(BLOCK_HASH), "")>>))},
   services |->
     {generate_from_methods(<<"S","t","a","r","k","n","e","t","S","e","r","v","i","c","e">>,
                            <<GetBlockMethod, SubscribeEventsMethod>>),
      generate_from_methods(<<"S","t","a","r","k","n","e","t","W","s","S","e","r","v","i","c","e">>, <<>>)}]

(***************************************************************************)
(* State                                                                   *)
(*   raw        the RawSpecs of the selected profile: <<>> before it is    *)
(*              selected                                                   *)
(*   specs      the outcome of parse_full on it                            *)
(*   generator  the ProtoGenerator: <<>> before ProtoGenerator::new, then   *)
(*              <<[config |-> ..., type_resolver |-> ...]>>                *)
(*   outputs    what the calls of generate were given and returned, in     *)
(*              call order                                                 *)
(*   service    a ServiceGenerator used on its own: <<>> or <<generator>>   *)
(*   method     the Method it is used on: <<>> or <<method>>                *)
(*   returned   the last call of a function used on its own, the argument   *)
(*              of the call and what the call returned                     *)
(*   writer     a ProtoWriter used on its own: <<>> or <<writer>>           *)
(***************************************************************************)
VARIABLES raw, specs, generator, outputs, service, method, returned, writer

vars == <<raw, specs, generator, outputs, service, method, returned, writer>>

MaxGenerateCalls == 2

NotParsed == ParseResult(FALSE, "not parsed", <<>>, NoSpecification)

Returned(call, argument, value) ==
  [call |-> call, argument |-> argument, value |-> value]

NotCalled == Returned("none", <<>>, <<>>)

Init ==
  /\ raw = <<>>
  /\ specs = NotParsed
  /\ generator = <<>>
  /\ outputs = <<>>
  /\ service = <<>>
  /\ method = <<>>
  /\ returned = NotCalled
  /\ writer = <<>>

\* Generate::run up to the expect on parse_full, for a profile of a registry
ParseFull(registry) ==
  /\ raw = <<>>
  /\ \E self \in registry :
       /\ raw' = <<self>>
       /\ specs' = parse_full(self)
  /\ UNCHANGED <<generator, outputs, service, method, returned, writer>>

\* ProtoGenerator::new, on the ProtoConfig::new of the version of the
\* selected profile (Generate::run), or of v0_1_0 when no profile is
\* selected (the tests)
NewGenerator ==
  /\ \E hasher \in HashSeeds :
       generator' = <<[config |-> ProtoConfig(IF raw = <<>> THEN V0_1_0
                                              ELSE raw[1].version),
                       type_resolver |-> TypeResolver(hasher)]>>
  /\ UNCHANGED <<raw, specs, outputs, service, method, returned, writer>>

\* what generate can be called on: the aggregated specification of the
\* profile, or a specification built by the caller
GenerateInputs ==
  TestSpecifications \cup (IF specs.ok THEN {specs.spec} ELSE {})

\* ProtoGenerator::generate
Generate(specification) ==
  /\ generator # <<>>
  /\ Len(outputs) < MaxGenerateCalls
  /\ LET self == generator[1].type_resolver
         config == generator[1].config
         after == resolved(self, specification)
         resolution == type_resolution(after)
     IN  /\ generator' = <<[config |-> config, type_resolver |-> after]>>
         /\ outputs' = Append(outputs,
                              [specs |-> specification,
                               fresh |-> self = TypeResolver(self.hasher),
                               result |-> resolution,
                               config |-> config,
                               files |-> generate_files(config, specification,
                                                        resolution)])
  /\ UNCHANGED <<raw, specs, service, method, returned, writer>>

\* generate called on any of the specifications at hand
GenerateAny == \E specification \in GenerateInputs : Generate(specification)

\* Generate::run on a profile of the generation registry
ParseProfile == ParseFull(Profiles)

\* parse_full on any combination of the fragments
ParseAny == ParseFull(RawSpecs)

NextAggregation == ParseAny

SpecAggregation == Init /\ [][NextAggregation]_vars

Next ==
  \/ ParseProfile
  \/ NewGenerator
  \/ GenerateAny

Spec == Init /\ [][Next]_vars

\* a ServiceGenerator::new and a method to use it on, as the tests of
\* service.rs set them up
InitService ==
  /\ raw = <<>>
  /\ specs = NotParsed
  /\ generator = <<>>
  /\ outputs = <<>>
  /\ \E version \in {V0_1_0, V0_8_1} :
       service = <<ServiceGenerator(<<"T","e","s","t","S","e","r","v","i","c","e">>, ProtoConfig(version))>>
  /\ \E m \in Methods : method = <<m>>
  /\ returned = NotCalled
  /\ writer = <<>>

\* The calls are independent of each other (the generator holds no state
\* they change), so each set-up is used for one call; only
\* method_name_to_rpc_name is applied again, to the name it returned.

\* ServiceGenerator::method_name_to_rpc_name, on the name of the method or on
\* the name the last call returned
MethodNameToRpcName ==
  /\ returned.call \in {"none", "method_name_to_rpc_name"}
  /\ \E method_name \in {method[1].name}
                        \cup (IF returned.call = "method_name_to_rpc_name"
                              THEN {returned.value} ELSE {}) :
       returned' = Returned("method_name_to_rpc_name", method_name,
                            method_name_to_rpc_name(method_name))
  /\ UNCHANGED <<raw, specs, generator, outputs, service, method, writer>>

\* ServiceGenerator::convert_method_to_rpc
ConvertMethodToRpc ==
  /\ returned = NotCalled
  /\ returned' = Returned("convert_method_to_rpc", method[1],
                          convert_method_to_rpc(method[1]))
  /\ UNCHANGED <<raw, specs, generator, outputs, service, method, writer>>

\* ServiceGenerator::generate_request_response_messages
GenerateRequestResponseMessages ==
  /\ returned = NotCalled
  /\ returned' = Returned("generate_request_response_messages", method[1],
                          generate_request_response_messages(method[1]))
  /\ UNCHANGED <<raw, specs, generator, outputs, service, method, writer>>

\* ServiceGenerator::schema_to_proto_field_type
SchemaToProtoFieldType ==
  /\ returned = NotCalled
  /\ \E schema \in FieldSchemas :
       returned' = Returned("schema_to_proto_field_type", schema,
                            schema_to_proto_field_type(schema))
  /\ UNCHANGED <<raw, specs, generator, outputs, service, method, writer>>

NextService ==
  \/ MethodNameToRpcName
  \/ ConvertMethodToRpc
  \/ GenerateRequestResponseMessages
  \/ SchemaToProtoFieldType

SpecService == InitService /\ [][NextService]_vars

\* The conversions of the Type Resolver and of the writer module take no
\* state; each is called once on an input, as the tests of types.rs and
\* writer.rs call them.

\* TypeResolver::convert_object_to_message
ConvertObjectToMessage ==
  /\ returned = NotCalled
  /\ \E obj \in ConversionInputs.objects :
       returned' = Returned("convert_object_to_message", obj,
                            convert_object_to_message(<<"T","e","s","t","O","b","j","e","c","t">>, obj))
  /\ UNCHANGED <<raw, specs, generator, outputs, service, method, writer>>

\* TypeResolver::convert_oneof_to_message
ConvertOneofToMessage ==
  /\ returned = NotCalled
  /\ \E oneof \in ConversionInputs.oneofs :
       returned' = Returned("convert_oneof_to_message", oneof,
                            convert_oneof_to_message(<<"U","n","i","o","n","T","y","p","e">>, oneof))
  /\ UNCHANGED <<raw, specs, generator, outputs, service, method, writer>>

\* TypeResolver::convert_allof_to_message
ConvertAllofToMessage ==
  /\ returned = NotCalled
  /\ \E allof \in ConversionInputs.allofs :
       returned' = Returned("convert_allof_to_message", allof,
                            convert_allof_to_message(<<"C","o","m","b","i","n","e","d">>, allof))
  /\ UNCHANGED <<raw, specs, generator, outputs, service, method, writer>>

\* TypeResolver::convert_string_enum_to_enum
ConvertStringEnumToEnum ==
  /\ returned = NotCalled
  /\ \E enum_values \in ConversionInputs.enum_lists, description \in {"", "Status enumeration"} :
       returned' = Returned("convert_string_enum_to_enum", enum_values,
                            convert_string_enum_to_enum(<<"S","t","a","t","u","s">>, enum_values,
                                                        description))
  /\ UNCHANGED <<raw, specs, generator, outputs, service, method, writer>>

\* writer.rs to_proto_name
ToProtoName ==
  /\ returned = NotCalled
  /\ \E json_name \in ConversionInputs.json_names :
       returned' = Returned("to_proto_name", json_name,
                            to_proto_name(json_name))
  /\ UNCHANGED <<raw, specs, generator, outputs, service, method, writer>>

NextConversions ==
  \/ ConvertObjectToMessage
  \/ ConvertOneofToMessage
  \/ ConvertAllofToMessage
  \/ ConvertStringEnumToEnum
  \/ ToProtoName

SpecConversions == Init /\ [][NextConversions]_vars

\* ProtoWriter::new on a package, as the tests of writer.rs set it up
InitWriter ==
  /\ raw = <<>>
  /\ specs = NotParsed
  /\ generator = <<>>
  /\ outputs = <<>>
  /\ service = <<>>
  /\ method = <<>>
  /\ returned = NotCalled
  /\ \E package_name \in {<<"s","t","a","r","k","n","e","t",".","v","0","_","1","_","0",".","m","a","i","n">>, <<"t","e","s","t",".","p","a","c","k","a","g","e">>} :
       writer = <<ProtoWriter(package_name)>>

\* the number of items of a writer
MaxAdded == 3

Added ==
  Len(writer[1].imports) + Len(writer[1].enums) + Len(writer[1].messages)
  + Len(writer[1].services)

\* ProtoWriter::add_import
AddImport ==
  /\ Added < MaxAdded
  /\ \E import \in WriterItems.imports :
       /\ writer' = <<add_import(writer[1], import)>>
       /\ returned' = Returned("add_import", import, <<>>)
  /\ UNCHANGED <<raw, specs, generator, outputs, service, method>>

\* ProtoWriter::add_enum
AddEnum ==
  /\ Added < MaxAdded
  /\ \E proto_enum \in WriterItems.enums :
       /\ writer' = <<add_enum(writer[1], proto_enum)>>
       /\ returned' = Returned("add_enum", proto_enum, <<>>)
  /\ UNCHANGED <<raw, specs, generator, outputs, service, method>>

\* ProtoWriter::add_message
AddMessage ==
  /\ Added < MaxAdded
  /\ \E message \in WriterItems.messages :
       /\ writer' = <<add_message(writer[1], message)>>
       /\ returned' = Returned("add_message", message, <<>>)
  /\ UNCHANGED <<raw, specs, generator, outputs, service, method>>

\* ProtoWriter::add_service
AddService ==
  /\ Added < MaxAdded
  /\ \E proto_service \in WriterItems.services :
       /\ writer' = <<add_service(writer[1], proto_service)>>
       /\ returned' = Returned("add_service", proto_service, <<>>)
  /\ UNCHANGED <<raw, specs, generator, outputs, service, method>>

NextWriter ==
  \/ AddImport
  \/ AddEnum
  \/ AddMessage
  \/ AddService

SpecWriter == InitWriter /\ [][NextWriter]_vars

(***************************************************************************)
(* Aggregation: what the inputs say, stated on the fragments themselves     *)
(***************************************************************************)
Parsed == raw # <<>>

WellFormed == Parsed /\ \A i \in 1..4 : fragments(raw[1])[i].wellformed

FragmentSchemas(i) == fragments(raw[1])[i].spec.schemas

FragmentMethods(i) == fragments(raw[1])[i].spec.methods

\* entry p of secondary fragment i re-declares a name of an earlier fragment
Shared(i, p) ==
  \E j \in 1..(i - 1) : contains_key(FragmentSchemas(j), FragmentSchemas(i)[p].key)

Incoming(i, p) == FragmentSchemas(i)[p].value

\* the accumulated entry of that name: the one of the earliest fragment
Existing(i, p) ==
  LET k == FragmentSchemas(i)[p].key
      j == CHOOSE j \in 1..(i - 1) :
             /\ contains_key(FragmentSchemas(j), k)
             /\ \A h \in 1..(j - 1) : ~contains_key(FragmentSchemas(h), k)
  IN  get(FragmentSchemas(j), k)

SecondaryEntries == {<<i, p>> \in (2..4) \X (1..3) : p \in DOMAIN FragmentSchemas(i)}

NonRefConflict(i, p) ==
  /\ Shared(i, p)
  /\ Incoming(i, p).kind # "Ref"
  /\ Existing(i, p).kind # "Ref"
  /\ Incoming(i, p) # Existing(i, p)

\* an existing $ref re-declared with a body that is not a $ref
RefRedefined(i, p) ==
  /\ Shared(i, p)
  /\ Incoming(i, p).kind # "Ref"
  /\ Existing(i, p).kind = "Ref"

Before(e, f) == e[1] < f[1] \/ (e[1] = f[1] /\ e[2] < f[2])

\* no entry processed before e stops the aggregation
FirstStop(e) ==
  \A f \in SecondaryEntries :
     Before(f, e) => ~NonRefConflict(f[1], f[2]) /\ ~RefRedefined(f[1], f[2])

\* C1: whenever a secondary fragment re-declares a schema name of the
\* accumulated specification and both bodies are non-Ref and structurally
\* unequal, aggregation fails and returns no Specification; the error is the
\* conflict error and names the key of the entry at which aggregation stops
\* (the first such entry in processing order).
C1_ConflictAborts ==
  Parsed =>
    \A e \in SecondaryEntries :
       NonRefConflict(e[1], e[2]) =>
         /\ ~specs.ok
         /\ specs.spec = NoSpecification
         /\ WellFormed =>
              /\ specs.error = "duplicate entries must be ref or identical"
              /\ FirstStop(e) => specs.key = FragmentSchemas(e[1])[e[2]].key

C1_Witness ==
  /\ WellFormed
  /\ \E e \in SecondaryEntries :
        /\ NonRefConflict(e[1], e[2])
        /\ FirstStop(e)
        /\ e[2] > 1
        /\ specs.key = FragmentSchemas(e[1])[e[2]].key
  /\ ~specs.ok

\* C2 as stated: a re-declared name whose accumulated entry is a Ref is kept
\* and aggregation does not fail, whatever the incoming body (no non-Ref
\* conflict being present elsewhere).
C2_ExistingRefKept ==
  WellFormed /\ (\A f \in SecondaryEntries : ~NonRefConflict(f[1], f[2])) =>
    \A e \in SecondaryEntries :
       Shared(e[1], e[2]) /\ Existing(e[1], e[2]).kind = "Ref" =>
         /\ specs.ok
         /\ get(specs.spec.schemas, FragmentSchemas(e[1])[e[2]].key)
              = Existing(e[1], e[2])

\* C2 amended: a re-declared name whose incoming (secondary) entry is a Ref
\* is kept as accumulated and does not make aggregation fail, whatever the
\* accumulated body (no entry being re-declared with an unequal non-Ref body).
C2_IncomingRefKept ==
  WellFormed
  /\ (\A f \in SecondaryEntries :
        ~NonRefConflict(f[1], f[2]) /\ ~RefRedefined(f[1], f[2])) =>
    \A e \in SecondaryEntries :
       Shared(e[1], e[2]) /\ Incoming(e[1], e[2]).kind = "Ref" =>
         /\ specs.ok
         /\ get(specs.spec.schemas, FragmentSchemas(e[1])[e[2]].key)
              = Existing(e[1], e[2])

C2_Witness ==
  /\ WellFormed
  /\ specs.ok
  /\ \E e \in SecondaryEntries :
        /\ Shared(e[1], e[2])
        /\ Incoming(e[1], e[2]).kind = "Ref"
        /\ Existing(e[1], e[2]).kind # "Ref"
        /\ Incoming(e[1], e[2]) # Existing(e[1], e[2])
        /\ get(specs.spec.schemas, FragmentSchemas(e[1])[e[2]].key)
              = Existing(e[1], e[2])

\* C3: on success the methods are the main fragment's, then the write
\* fragment's, then the trace fragment's, then the ws fragment's (none when
\* absent), each in its own order.
C3_MethodsConcatenated ==
  specs.ok =>
    specs.spec.methods =
      FragmentMethods(1) \o FragmentMethods(2) \o FragmentMethods(3)
        \o (IF raw[1].ws = <<>> THEN <<>> ELSE raw[1].ws[1].spec.methods)

C3_Witness ==
  /\ Parsed
  /\ specs.ok
  /\ Len(FragmentMethods(1)) = 2
  /\ FragmentMethods(2) # <<>>
  /\ FragmentMethods(3) # <<>>
  /\ FragmentMethods(2) # FragmentMethods(3)
  /\ raw[1].ws # <<>>
  /\ Len(FragmentMethods(4)) = 2
  /\ Len(specs.spec.methods) = 7


(***************************************************************************)
(* Resolution: the outputs of generate against the tables they were given   *)
(***************************************************************************)
Range(seq) == {seq[i] : i \in DOMAIN seq}

\* the messages of an output that carry the proto name of a schema name
MessagesOf(o, schema_name) ==
  {i \in DOMAIN o.result.common_types :
     o.result.common_types[i].name = to_proto_type_name(schema_name)}

MessageOf(o, schema_name) ==
  o.result.common_types[CHOOSE i \in MessagesOf(o, schema_name) : TRUE]

\* the entries of the table of output n that are of a kind
EntriesOfKind(n, kind) ==
  {e \in DOMAIN outputs[n].specs.schemas :
     outputs[n].specs.schemas[e].value.kind = kind}

\* C4: every Object entry yields a message with exactly one field per
\* property, in declaration order, the i-th numbered i, optional iff the
\* property name is not in the required list.
C4_ObjectFields ==
  \A n \in DOMAIN outputs :
    \A e \in EntriesOfKind(n, "Object") :
      LET entry == outputs[n].specs.schemas[e]
          obj == entry.value
      IN  /\ Cardinality(MessagesOf(outputs[n], entry.key)) = 1
          /\ LET fields == MessageOf(outputs[n], entry.key).fields
             IN  /\ Len(fields) = Len(obj.names)
                 /\ \A i \in DOMAIN obj.names :
                      /\ fields[i].number = i
                      /\ fields[i].json_name = <<obj.names[i]>>
                      /\ fields[i].optional
                           <=> obj.names[i] \notin Range(obj.required)

C4_Witness ==
  \E n \in DOMAIN outputs :
    \E e \in EntriesOfKind(n, "Object") :
      LET entry == outputs[n].specs.schemas[e]
          fields == MessageOf(outputs[n], entry.key).fields
      IN  /\ Len(entry.value.names) = 3
          /\ Len(fields) = 3
          /\ fields[3].number = 3
          /\ fields[3].optional
          /\ ~fields[2].optional

\* C5: a property whose schema is Array{items} yields a field typed by the
\* mapped type of items and marked repeated.
C5_ArrayRepeated ==
  \A n \in DOMAIN outputs :
    \A e \in EntriesOfKind(n, "Object") :
      LET entry == outputs[n].specs.schemas[e]
          obj == entry.value
      IN  \A i \in DOMAIN obj.names :
            obj.sub[i].kind = "Array" =>
              \E m \in MessagesOf(outputs[n], entry.key) :
                LET field == outputs[n].result.common_types[m].fields[i]
                IN  /\ field.repeated
                    /\ field.field_type
                         = schema_to_proto_field_type_impl(obj.sub[i].sub[1])

\* the table of the end-to-end scenario: FELT a string, BLOCK_HASH a
\* reference to FELT, BLOCK the object of three properties
BlockScenario(table) ==
  /\ contains_key(table, FELT) /\ get(table, FELT).kind = "String"
  /\ contains_key(table, BLOCK_HASH)
  /\ get(table, BLOCK_HASH) = Reference(Ptr(FELT), "Block hash reference")
  /\ contains_key(table, BLOCK) /\ get(table, BLOCK) = BlockSchema

\* C6: in the end-to-end scenario the Block message has block_hash of proto
\* type string (through the alias), not optional, block_number of type int64,
\* not optional, parent_hash optional, each with json_name its JSON key.
C6_BlockScenario ==
  \A n \in DOMAIN outputs :
    BlockScenario(outputs[n].specs.schemas) =>
      \E m \in MessagesOf(outputs[n], BLOCK) :
        LET fields == outputs[n].result.common_types[m].fields
        IN  /\ Len(fields) = 3
            /\ fields[1].name = block_hash
            /\ fields[1].field_type.tag = "String"
            /\ ~fields[1].optional
            /\ fields[2].name = block_number
            /\ fields[2].field_type.tag = "Int64"
            /\ ~fields[2].optional
            /\ fields[3].name = parent_hash
            /\ fields[3].optional
            /\ fields[1].json_name = <<block_hash>>
            /\ fields[2].json_name = <<block_number>>
            /\ fields[3].json_name = <<parent_hash>>

\* PascalCase stated position by position: the characters other than '_',
\* upper-cased at the start and after a '_', lower-cased elsewhere
PascalCaseOf(identifier) ==
  LET kept == SelectSeq([i \in DOMAIN identifier |-> i],
                        LAMBDA i : identifier[i] # "_")
  IN  [j \in DOMAIN kept |->
         IF kept[j] = 1 \/ identifier[kept[j] - 1] = "_"
         THEN to_uppercase(identifier[kept[j]])
         ELSE to_lowercase(identifier[kept[j]])]

\* the identifier a pointer into components/schemas refers to
Referenced(schema) ==
  SubSeq(schema.ref, Len(SchemasPrefix) + 1, Len(schema.ref))

\* C7: a Ref property or variant is typed by the message named by the
\* PascalCase of the referenced identifier, without package prefix: FELT
\* gives Felt, and block_hash of BLOCK is written BlockHash block_hash = 1.
C7_RefIsPascalCaseMessage ==
  \A n \in DOMAIN outputs :
    \A e \in EntriesOfKind(n, "Object") \cup EntriesOfKind(n, "OneOf") :
      LET entry == outputs[n].specs.schemas[e]
      IN  \A m \in MessagesOf(outputs[n], entry.key) :
            LET fields == outputs[n].result.common_types[m].fields
            IN  \A i \in DOMAIN entry.value.sub :
                  entry.value.sub[i].kind = "Ref" =>
                    /\ fields[i].field_type.tag = "Message"
                    /\ fields[i].field_type.name
                         = PascalCaseOf(Referenced(entry.value.sub[i]))
                    /\ "." \notin Range(fields[i].field_type.name)
                    /\ Referenced(entry.value.sub[i]) = FELT =>
                         fields[i].field_type.name = <<"F","e","l","t">>
                    /\ entry.value = BlockSchema /\ i = 1 =>
                         field_line(fields[i]) =
                           <<" "," ","B","l","o","c","k","H","a","s","h"," ","b","l","o","c","k","_","h","a","s","h"," ","="," ","1"," ","[","j","s","o","n","_","n","a","m","e"," ","="," ","\"","b","l","o","c","k","_","h","a","s","h","\"","]",";">>

C7_Witness ==
  /\ \E n \in DOMAIN outputs :
       \E m \in MessagesOf(outputs[n], BLOCK) :
          /\ contains_key(outputs[n].specs.schemas, BLOCK)
          /\ get(outputs[n].specs.schemas, BLOCK) = BlockSchema
          /\ outputs[n].result.common_types[m].fields[1].field_type
               = ProtoFieldType("Message", <<"B","l","o","c","k","H","a","s","h">>)
  /\ \E n \in DOMAIN outputs :
       \E m \in MessagesOf(outputs[n], BLOCK_ID) :
          /\ contains_key(outputs[n].specs.schemas, BLOCK_ID)
          /\ get(outputs[n].specs.schemas, BLOCK_ID).sub[3].kind = "Ref"
          /\ outputs[n].result.common_types[m].fields[3].field_type
               = ProtoFieldType("Message", <<"F","e","l","t">>)

\* a property, variant or part that refers to a name the table lacks
UnresolvedReference(table) ==
  \E e \in DOMAIN table :
    /\ table[e].value.kind \in {"Object", "OneOf", "AllOf"}
    /\ \E i \in DOMAIN table[e].value.sub :
         /\ table[e].value.sub[i].kind = "Ref"
         /\ ~contains_key(table, Referenced(table[e].value.sub[i]))

\* C8: resolving a table with a reference to an absent name fails, no
\* TypeResolution is returned.
C8_UnresolvedReferenceFails ==
  \A n \in DOMAIN outputs :
    UnresolvedReference(outputs[n].specs.schemas) => ~outputs[n].result.ok

\* C9: two resolutions of the same table by fresh resolvers yield the same
\* IR, the order of the messages and of the enums included.
C9_Deterministic ==
  \A n, k \in DOMAIN outputs :
    /\ outputs[n].fresh
    /\ outputs[k].fresh
    /\ outputs[n].specs.schemas = outputs[k].specs.schemas
    => outputs[n].result = outputs[k].result

\* C10: the messages and enums of an output are exactly those derived from
\* the table of that call; no name resolved in an earlier call and absent
\* from the table appears.
C10_FreshPerCall ==
  \A n \in DOMAIN outputs :
    LET o == outputs[n]
        derived == type_resolution(resolved(TypeResolver(0), o.specs))
    IN  /\ Range(o.result.common_types) = Range(derived.common_types)
        /\ Range(o.result.common_enums) = Range(derived.common_enums)
        /\ \A m \in Range(o.result.common_types) \cup Range(o.result.common_enums) :
             \E k \in keys(o.specs.schemas) : to_proto_type_name(k) = m.name

(***************************************************************************)
(* Services: the files of generate and the calls of the service generator  *)
(***************************************************************************)
\* text occurs in s: s is some text, then the pattern, then some text
Occurs(pattern, s) ==
  \E before \in 0..Len(s) :
    /\ before + Len(pattern) <= Len(s)
    /\ \A k \in 1..Len(pattern) : s[before + k] = pattern[k]

Called(call) == returned.call = call

\* the rpcs of the service of a file of an output
RpcsOf(o, file) == o.files[file].services[1].rpcs

ServiceFiles == {"main.proto", "write.proto", "trace.proto", "ws.proto"}

\* the lines of all the files of an output
MessageLines(o) == UNION {Range(fmt(o.files[file])) : file \in FileNames}

\* C11: every request and response type named by an rpc line of a generated
\* service is defined as a message in one of the generated files.
C11_RequestResponseDefined ==
  \A n \in DOMAIN outputs :
    \A file \in ServiceFiles :
      \A i \in DOMAIN RpcsOf(outputs[n], file) :
        LET rpc == RpcsOf(outputs[n], file)[i]
        IN  /\ Occurs(rpc.request_type \o <<")">>, rpc_line(rpc))
            /\ (<<"m","e","s","s","a","g","e"," ">> \o rpc.request_type \o <<" ","{">>)
                 \in MessageLines(outputs[n])
            /\ (<<"m","e","s","s","a","g","e"," ">> \o rpc.response_type \o <<" ","{">>)
                 \in MessageLines(outputs[n])

\* the identifiers the alias table maps to string and to uint64
StringIdentifiers ==
  {<<"F","E","L","T">>, <<"T","X","N","_","H","A","S","H">>, <<"B","L","O","C","K","_","H","A","S","H">>, <<"A","D","D","R","E","S","S">>, <<"C","L","A","S","S","_","H","A","S","H">>,
   <<"S","T","O","R","A","G","E","_","K","E","Y">>, <<"H","A","S","H","_","2","5","6">>, <<"u","1","2","8">>, <<"E","T","H","_","A","D","D","R","E","S","S">>}

Uint64Identifiers == {<<"B","L","O","C","K","_","N","U","M","B","E","R">>, <<"N","U","M","_","A","S","_","H","E","X">>, <<"L","1","_","T","X","N","_","H","A","S","H">>, <<"u","6","4">>}

\* the identifier of a pointer: what follows its last '/'
IdentifierOf(pointer) ==
  LET slashes == {i \in DOMAIN pointer : pointer[i] = "/"}
      last == CHOOSE i \in slashes : \A j \in slashes : j <= i
  IN  IF slashes = {} THEN pointer ELSE SubSeq(pointer, last + 1, Len(pointer))

\* the common-type package of the run of the service generator
RunCommonPackage ==
  service[1].config.package_prefix \o <<".">> \o service[1].config.version
  \o <<".","c","o","m","m","o","n">>

\* C12: a reference to an identifier outside the alias table maps to the
\* message named by the PascalCase of the identifier, qualified with the
\* common-type package of the current run.
C12_QualifiedWithRunPackage ==
  (Called("schema_to_proto_field_type") /\ returned.argument.kind = "Ref"
   /\ IdentifierOf(returned.argument.ref) \notin StringIdentifiers \cup Uint64Identifiers)
  => returned.value =
       ProtoFieldType("Message",
                      RunCommonPackage \o <<".">>
                      \o PascalCaseOf(IdentifierOf(returned.argument.ref)))

\* C13: schema_to_proto_field_type of a reference to
\* #/components/schemas/BLOCK is the message type named exactly Block.
C13_BlockIsUnqualified ==
  (Called("schema_to_proto_field_type")
   /\ returned.argument.kind = "Ref"
   /\ returned.argument.ref = <<"#","/","c","o","m","p","o","n","e","n","t","s","/","s","c","h","e","m","a","s","/","B","L","O","C","K">>)
  => (returned.value.tag = "Message" /\ returned.value.name = <<"B","l","o","c","k">>)

\* C14: a reference to one of FELT, TXN_HASH, BLOCK_HASH, ADDRESS,
\* CLASS_HASH, STORAGE_KEY, HASH_256, u128, ETH_ADDRESS maps to string, one
\* to BLOCK_NUMBER, NUM_AS_HEX, L1_TXN_HASH, u64 to uint64, and an identifier
\* that is not exactly one of them (in another case, say) to neither.
C14_AliasTable ==
  (Called("schema_to_proto_field_type") /\ returned.argument.kind = "Ref")
  => LET identifier == IdentifierOf(returned.argument.ref)
     IN  /\ identifier \in StringIdentifiers
              => field_type_text(returned.value) = <<"s","t","r","i","n","g">>
         /\ identifier \in Uint64Identifiers
              => field_type_text(returned.value) = <<"u","i","n","t","6","4">>
         /\ identifier \notin StringIdentifiers \cup Uint64Identifiers
              => returned.value.tag \notin {"String", "Uint64"}

C14_Witness ==
  /\ Called("schema_to_proto_field_type")
  /\ returned.argument.kind = "Ref"
  /\ IdentifierOf(returned.argument.ref) = <<"L","1","_","T","X","N","_","H","A","S","H">>
  /\ returned.value.tag = "Uint64"

\* the surface tests on the raw method name
InWrite(m) == Occurs(<<"w","r","i","t","e">>, m.name) \/ Occurs(<<"a","d","d">>, m.name) \/ Occurs(<<"i","n","v","o","k","e">>, m.name)

InTrace(m) == Occurs(<<"t","r","a","c","e">>, m.name)

InWs(m) == Occurs(<<"s","u","b","s","c","r","i","b","e">>, m.name)

InMain(m) == ~Occurs(<<"w","r","i","t","e">>, m.name) /\ ~Occurs(<<"t","r","a","c","e">>, m.name) /\ ~Occurs(<<"s","u","b","s","c","r","i","b","e">>, m.name)

\* the raw names of the methods of an output that pass a test
Passing(o, Test(_)) == {o.specs.methods[i].name : i \in {j \in DOMAIN o.specs.methods : Test(o.specs.methods[j])}}

\* the raw names of the methods of an output whose rpc is in a service
Placed(o, file) ==
  LET rpc_names == {RpcsOf(o, file)[r].name : r \in DOMAIN RpcsOf(o, file)}
  IN  {o.specs.methods[i].name :
         i \in {j \in DOMAIN o.specs.methods :
                  method_name_to_rpc_name(o.specs.methods[j].name) \in rpc_names}}

\* C15: a method is in the write service iff its name contains write, add or
\* invoke, in the trace service iff it contains trace, in the ws service iff
\* it contains subscribe, in the main service iff it contains none of write,
\* trace, subscribe; a method passing several tests is in every such service.
C15_SurfaceFilters ==
  \A n \in DOMAIN outputs :
    /\ Placed(outputs[n], "write.proto") = Passing(outputs[n], InWrite)
    /\ Placed(outputs[n], "trace.proto") = Passing(outputs[n], InTrace)
    /\ Placed(outputs[n], "ws.proto") = Passing(outputs[n], InWs)
    /\ Placed(outputs[n], "main.proto") = Passing(outputs[n], InMain)

C15_Witness ==
  \E n \in DOMAIN outputs :
    /\ starknet_addInvokeTransaction \in Placed(outputs[n], "write.proto")
    /\ starknet_addInvokeTransaction \in Placed(outputs[n], "main.proto")
    /\ <<"s","t","a","r","k","n","e","t","_","s","u","b","s","c","r","i","b","e","_","t","r","a","c","e","_","w","r","i","t","e","s">> \in Placed(outputs[n], "ws.proto")
    /\ <<"s","t","a","r","k","n","e","t","_","s","u","b","s","c","r","i","b","e","_","t","r","a","c","e","_","w","r","i","t","e","s">> \notin Placed(outputs[n], "main.proto")

\* C16: a method is client-streaming iff its name contains batch or multi or
\* it has more than five parameters, server-streaming iff its name contains
\* subscribe, stream, events or logs; the tests are case-sensitive.
C16_StreamingClassification ==
  Called("convert_method_to_rpc")
  => LET m == returned.argument
     IN  /\ returned.value.client_streaming
              <=> (Occurs(<<"b","a","t","c","h">>, m.name) \/ Occurs(<<"m","u","l","t","i">>, m.name)
                   \/ Len(m.params) > 5)
         /\ returned.value.server_streaming
              <=> (Occurs(<<"s","u","b","s","c","r","i","b","e">>, m.name) \/ Occurs(<<"s","t","r","e","a","m">>, m.name)
                   \/ Occurs(<<"e","v","e","n","t","s">>, m.name) \/ Occurs(<<"l","o","g","s">>, m.name))

C16_Witness ==
  /\ Called("convert_method_to_rpc")
  /\ returned.argument.name = starknet_getBlock
  /\ Len(returned.argument.params) = 7
  /\ returned.value.client_streaming
  /\ ~returned.value.server_streaming

\* the name a method name is converted from: the name without one leading
\* starknet_ prefix
Remainder(method_name) ==
  IF Len(method_name) >= 9 /\ \A k \in 1..9 : method_name[k] = <<"s","t","a","r","k","n","e","t","_">>[k]
  THEN [k \in 1..(Len(method_name) - 9) |-> method_name[k + 9]]
  ELSE method_name

\* the rpc name of a method name: the remainder with its first character
\* upper-cased when it has no '_', the PascalCase of its segments otherwise
RpcNameOf(method_name) ==
  LET remainder == Remainder(method_name)
  IN  IF \A k \in DOMAIN remainder : remainder[k] # "_"
      THEN [k \in DOMAIN remainder |->
              IF k = 1 THEN to_uppercase(remainder[k]) ELSE remainder[k]]
      ELSE PascalCaseOf(remainder)

\* C17: method_name_to_rpc_name strips one leading starknet_ prefix and
\* converts the remainder to PascalCase: without '_' only the first
\* character is upper-cased, with '_' every segment has its first character
\* upper-cased and its rest lower-cased; get_block and getBlock both give
\* GetBlock.
C17_RpcName ==
  Called("method_name_to_rpc_name")
  => /\ returned.value = RpcNameOf(returned.argument)
     /\ returned.argument \in {<<"g","e","t","_","b","l","o","c","k">>, <<"g","e","t","B","l","o","c","k">>, <<"s","t","a","r","k","n","e","t","_","g","e","t","_","b","l","o","c","k">>,
                               <<"s","t","a","r","k","n","e","t","_","g","e","t","B","l","o","c","k">>}
          => returned.value = <<"G","e","t","B","l","o","c","k">>

C17_Witness ==
  /\ Called("method_name_to_rpc_name")
  /\ returned.argument = <<"s","t","a","r","k","n","e","t","_","s","t","a","r","k","n","e","t","_","g","e","t","B","l","o","c","k">>
  /\ returned.value = <<"S","t","a","r","k","n","e","t","G","e","t","b","l","o","c","k">>

\* C18: applying method_name_to_rpc_name to what it returned returns the
\* same name, and what it returns never starts with the starknet_ prefix.
C18_RpcNameIdempotent ==
  /\ [](Called("method_name_to_rpc_name")
        => Remainder(returned.value) = returned.value)
  /\ [][(/\ Called("method_name_to_rpc_name")
         /\ returned'.call = "method_name_to_rpc_name"
         /\ returned'.argument = returned.value)
        => returned'.value = returned.value]_vars

C18_Witness ==
  /\ Called("method_name_to_rpc_name")
  /\ returned.argument = <<"C","u","s","t","o","m","M","e","t","h","o","d","N","a","m","e">>
  /\ returned.value = <<"C","u","s","t","o","m","M","e","t","h","o","d","N","a","m","e">>

\* C19: the request message of a method is named <RpcName>Request and has
\* exactly one field per parameter, in declaration order, the i-th numbered
\* i, optional iff the parameter is not required, json_name the original
\* parameter name.
C19_RequestMessage ==
  Called("generate_request_response_messages")
  => LET m == returned.argument
         request == returned.value[1]
     IN  /\ request.name = RpcNameOf(m.name) \o <<"R","e","q","u","e","s","t">>
         /\ Len(request.fields) = Len(m.params)
         /\ \A i \in DOMAIN m.params :
              /\ request.fields[i].number = i
              /\ request.fields[i].optional = ~m.params[i].required
              /\ request.fields[i].json_name = <<m.params[i].name>>

C19_Witness ==
  /\ Called("generate_request_response_messages")
  /\ returned.argument.name = starknet_getBlock
  /\ Len(returned.argument.params) = 2
  /\ returned.argument.params[1].required
  /\ ~returned.argument.params[2].required
  /\ returned.value[1].name = <<"G","e","t","B","l","o","c","k","R","e","q","u","e","s","t">>
  /\ returned.value[1].fields[2].optional
  /\ returned.value[1].fields[2].json_name = <<<<"i","n","c","l","u","d","e","T","x","s">>>>

\* the fields of a message that carry a name
FieldsNamed(message, field_name) ==
  {i \in DOMAIN message.fields : message.fields[i].name = field_name}

\* C20: the response message of a method is named <RpcName>Response, has a
\* non-optional result field numbered 1 iff the method declares a result,
\* and always an optional error field numbered 2 of message type Error; with
\* no result it has the error field alone, still numbered 2.
C20_ResponseMessage ==
  Called("generate_request_response_messages")
  => LET m == returned.argument
         response == returned.value[2]
         results == FieldsNamed(response, <<"r","e","s","u","l","t">>)
         errors == FieldsNamed(response, <<"e","r","r","o","r">>)
     IN  /\ response.name = RpcNameOf(m.name) \o <<"R","e","s","p","o","n","s","e">>
         /\ (results # {}) <=> (m.result # <<>>)
         /\ \A i \in results :
              response.fields[i].number = 1 /\ ~response.fields[i].optional
         /\ Cardinality(errors) = 1
         /\ \A i \in errors :
              /\ response.fields[i].number = 2
              /\ response.fields[i].optional
              /\ response.fields[i].field_type.tag = "Message"
              /\ response.fields[i].field_type.name = <<"E","r","r","o","r">>
         /\ Len(response.fields) = Cardinality(results) + 1
         /\ Cardinality(results) <= 1

C20_Witness ==
  /\ Called("generate_request_response_messages")
  /\ returned.argument.result = <<>>
  /\ Len(returned.value[2].fields) = 1
  /\ returned.value[2].fields[1].name = <<"e","r","r","o","r">>
  /\ returned.value[2].fields[1].number = 2

(***************************************************************************)
(* Conversions: what a conversion returned against what it was given        *)
(***************************************************************************)
\* the fields a part of an allOf contributes: its properties, the reference
\* itself, or nothing
Contributed(part) ==
  CASE part.kind = "Object" -> Len(part.names)
    [] part.kind = "Ref" -> 1
    [] OTHER -> 0

\* the fields the parts before part p contribute
ContributedBefore(allof, p) ==
  LET sum[q \in 0..Len(allof.sub)] ==
        IF q = 0 THEN 0 ELSE sum[q - 1] + Contributed(allof.sub[q])
  IN  sum[p - 1]

\* json_name as the text of a field writes it
JsonNameText(property_name) == <<" ","[","j","s","o","n","_","n","a","m","e"," ","="," ","\"">> \o property_name \o <<"\"","]",";">>

\* C21: every field generated from an object property carries json_name equal
\* to the original property name, case preserved, and is named
\* to_proto_name(original name); the text of the field writes that json_name.
C21_JsonNamePreserved ==
  /\ Called("convert_object_to_message") =>
       LET obj == returned.argument
           fields == returned.value.fields
       IN  /\ Len(fields) = Len(obj.names)
           /\ \A i \in DOMAIN obj.names :
                /\ fields[i].json_name = <<obj.names[i]>>
                /\ fields[i].name = to_proto_name(obj.names[i])
                /\ Occurs(JsonNameText(obj.names[i]), field_line(fields[i]))
  /\ Called("convert_allof_to_message") =>
       LET allof == returned.argument
           fields == returned.value.fields
       IN  \A p \in DOMAIN allof.sub :
             allof.sub[p].kind = "Object" =>
               \A i \in DOMAIN allof.sub[p].names :
                 LET k == ContributedBefore(allof, p) + i
                 IN  /\ k \in DOMAIN fields
                     /\ fields[k].json_name = <<allof.sub[p].names[i]>>
                     /\ fields[k].name = to_proto_name(allof.sub[p].names[i])

C21_Witness ==
  /\ Called("convert_object_to_message")
  /\ Len(returned.argument.names) = 3
  /\ returned.argument.names[2] = txnHash
  /\ returned.value.fields[2].json_name = <<txnHash>>
  /\ returned.value.fields[2].name = <<"t","x","n","_","h","a","s","h">>
  /\ returned.value.fields[3].json_name = <<<<"b","l","o","c","k","N","u","m","b","e","r">>>>

\* C22: convert_allof_to_message builds the field list in part order: an
\* Object part contributes one field per property, optional iff the property
\* is not in the required list of that part, json_name being the property
\* name; a Ref part contributes one non-optional field named
\* to_proto_name(identifier), typed by the message of the PascalCase of the
\* identifier; a part of any other shape contributes nothing; the fields are
\* numbered 1..k across all parts.
C22_AllOfFlattening ==
  Called("convert_allof_to_message") =>
    LET allof == returned.argument
        fields == returned.value.fields
    IN  /\ returned.value.oneofs = <<>>
        /\ Len(fields) = ContributedBefore(allof, Len(allof.sub) + 1)
        /\ \A k \in DOMAIN fields : fields[k].number = k
        /\ \A p \in DOMAIN allof.sub :
             LET part == allof.sub[p]
                 before == ContributedBefore(allof, p)
             IN  /\ part.kind = "Object" =>
                      \A i \in DOMAIN part.names :
                        /\ fields[before + i].json_name = <<part.names[i]>>
                        /\ fields[before + i].name = to_proto_name(part.names[i])
                        /\ fields[before + i].field_type
                             = schema_to_proto_field_type_impl(part.sub[i])
                        /\ fields[before + i].optional
                             <=> part.names[i] \notin Range(part.required)
                 /\ part.kind = "Ref" =>
                      /\ ~fields[before + 1].optional
                      /\ ~fields[before + 1].repeated
                      /\ fields[before + 1].json_name = <<>>
                      /\ fields[before + 1].name
                           = to_proto_name(IdentifierOf(part.ref))
                      /\ fields[before + 1].field_type
                           = ProtoFieldType("Message",
                                            PascalCaseOf(IdentifierOf(part.ref)))
                 /\ part.kind \notin {"Object", "Ref"} =>
                      ContributedBefore(allof, p + 1) = before

\* an allOf of a reference, a oneOf and an object: the reference is field 1,
\* the oneOf is skipped, the properties of the object are fields 2 and 3
C22_Witness ==
  /\ Called("convert_allof_to_message")
  /\ Len(returned.argument.sub) = 3
  /\ returned.argument.sub[1] = Reference(Ptr(TXN), "The transaction")
  /\ returned.argument.sub[2].kind = "OneOf"
  /\ returned.argument.sub[3].kind = "Object"
  /\ returned.argument.sub[3].required = <<<<"t","x","n">>>>
  /\ Len(returned.value.fields) = 3
  /\ returned.value.fields[1].name = <<"t","x","n">>
  /\ returned.value.fields[1].field_type = ProtoFieldType("Message", <<"T","x","n">>)
  /\ returned.value.fields[2].name = <<"b","l","o","c","k","_","n","u","m","b","e","r">>
  /\ returned.value.fields[2].optional
  /\ returned.value.fields[3].number = 3
  /\ ~returned.value.fields[3].optional

\* C23: convert_oneof_to_message yields a message with exactly one oneof
\* group, named value, holding one member field per variant in variant
\* order; the i-th variant is named variant_i, numbered i and typed by the
\* field-type mapping of its schema.
C23_OneOfGroup ==
  Called("convert_oneof_to_message") =>
    LET variants == returned.argument.sub
        message == returned.value
    IN  /\ Len(message.oneofs) = 1
        /\ message.oneofs[1].name = <<"v","a","l","u","e">>
        /\ Len(message.oneofs[1].fields) = Len(variants)
        /\ message.fields = message.oneofs[1].fields
        /\ \A i \in DOMAIN variants :
             LET member == message.oneofs[1].fields[i]
             IN  /\ member.name = <<"v","a","r","i","a","n","t","_">> \o to_string(i)
                 /\ member.number = i
                 /\ member.field_type
                      = schema_to_proto_field_type_impl(variants[i])
                 /\ member.oneof_name = <<<<"v","a","l","u","e">>>>
        /\ Cardinality({l \in DOMAIN message_lines(message) :
                          Occurs(<<"o","n","e","o","f"," ">>, message_lines(message)[l])}) = 1
        /\ \E l \in DOMAIN message_lines(message) :
             message_lines(message)[l] = <<" "," ","o","n","e","o","f"," ","v","a","l","u","e"," ","{">>

C23_Witness ==
  /\ Called("convert_oneof_to_message")
  /\ Len(returned.argument.sub) = 11
  /\ returned.value.oneofs[1].fields[11].name = <<"v","a","r","i","a","n","t","_","1","1">>
  /\ returned.value.oneofs[1].fields[11].number = 11
  /\ returned.value.oneofs[1].fields[2].name = <<"v","a","r","i","a","n","t","_","2">>
  /\ <<" "," "," "," ","i","n","t","6","4"," ","v","a","r","i","a","n","t","_","1","0"," ","="," ","1","0",";">> \in Range(message_lines(returned.value))

C27_FieldNameConversion ==
  Called("to_proto_name") =>
    LET json_name == returned.argument
        boundaries == {i \in DOMAIN json_name :
                         /\ i > 1
                         /\ is_uppercase(json_name[i])
                         /\ is_lowercase(json_name[i - 1])}
        position(i) == i + Cardinality({b \in boundaries : b <= i})
        converted ==
          [k \in 1..(Len(json_name) + Cardinality(boundaries)) |->
             IF \E b \in boundaries : position(b) - 1 = k THEN "_"
             ELSE to_lowercase(json_name[CHOOSE i \in DOMAIN json_name :
                                           position(i) = k])]
    IN  /\ returned.value
             = IF converted \in {<<"t","y","p","e">>, <<"r","e","f">>} THEN converted \o <<"_">>
               ELSE converted
        /\ \A k \in DOMAIN returned.value : ~is_uppercase(returned.value[k])
        /\ json_name = <<"b","l","o","c","k","N","u","m","b","e","r">> => returned.value = <<"b","l","o","c","k","_","n","u","m","b","e","r">>
        /\ json_name = <<"P","a","s","c","a","l","C","a","s","e">> => returned.value = <<"p","a","s","c","a","l","_","c","a","s","e">>
        /\ json_name = <<"s","n","a","k","e","_","c","a","s","e">> => returned.value = <<"s","n","a","k","e","_","c","a","s","e">>

\* a name that converts to a reserved word
C27_Witness ==
  /\ Called("to_proto_name")
  /\ returned.argument = <<"T","y","p","e">>
  /\ returned.value = <<"t","y","p","e","_">>

\* C28: in every message made from an Object or an AllOf schema the proto
\* field names are pairwise distinct.
C28_FieldNamesDistinct ==
  (Called("convert_object_to_message") \/ Called("convert_allof_to_message"))
  => \A i, j \in DOMAIN returned.value.fields :
       i # j => returned.value.fields[i].name # returned.value.fields[j].name

(***************************************************************************)
(* Writer: the text of a writer against the calls made on it                *)
(***************************************************************************)
StartsWith(line, prefix) ==
  Len(line) >= Len(prefix) /\ SubSeq(line, 1, Len(prefix)) = prefix

\* the section a line of the text opens an item of; 0 for the lines inside
\* an item, the comments and the empty lines
SectionOf(line) ==
  CASE StartsWith(line, <<"s","y","n","t","a","x"," ">>) -> 1
    [] StartsWith(line, <<"p","a","c","k","a","g","e"," ">>) -> 2
    [] StartsWith(line, <<"i","m","p","o","r","t"," ">>) -> 3
    [] StartsWith(line, <<"o","p","t","i","o","n"," ">>) -> 4
    [] StartsWith(line, <<"e","n","u","m"," ">>) -> 5
    [] StartsWith(line, <<"m","e","s","s","a","g","e"," ">>) -> 6
    [] StartsWith(line, <<"s","e","r","v","i","c","e"," ">>) -> 7
    [] OTHER -> 0

\* the lines of a text that open the items of a section, in text order
ItemsOf(text, section) == SelectSeq(text, LAMBDA line : SectionOf(line) = section)

\* the line that opens the item a call added
ItemLine(call, item) ==
  CASE call = "add_import" -> <<"i","m","p","o","r","t"," ","\"">> \o item \o <<"\"",";">>
    [] call = "add_enum" -> <<"e","n","u","m"," ">> \o item.name \o <<" ","{">>
    [] call = "add_message" -> <<"m","e","s","s","a","g","e"," ">> \o item.name \o <<" ","{">>
    [] call = "add_service" -> <<"s","e","r","v","i","c","e"," ">> \o item.name \o <<" ","{">>

SectionOfCall(call) ==
  CASE call = "add_import" -> 3
    [] call = "add_enum" -> 5
    [] call = "add_message" -> 6
    [] call = "add_service" -> 7

\* the sections of the text are in the fixed order
SectionsInOrder ==
  writer # <<>> =>
    LET text == fmt(writer[1])
    IN  /\ text[1] = <<"s","y","n","t","a","x"," ","="," ","\"","p","r","o","t","o","3","\"",";">>
        /\ ItemsOf(text, 1) = <<text[1]>>
        /\ ItemsOf(text, 2) = <<<<"p","a","c","k","a","g","e"," ">> \o writer[1].package \o <<";">>>>
        /\ Len(ItemsOf(text, 4)) = 6
        /\ \A i, j \in DOMAIN text :
             (i < j /\ SectionOf(text[i]) # 0 /\ SectionOf(text[j]) # 0)
             => SectionOf(text[i]) <= SectionOf(text[j])

\* a call puts its item at the end of its section (an import that is already
\* there is not written again) and leaves the other sections as they were
AddedLast ==
  LET before == fmt(writer[1])
      after == fmt(writer'[1])
      call == returned'.call
      line == ItemLine(call, returned'.argument)
  IN  \A section \in 1..7 :
        ItemsOf(after, section)
          = IF section # SectionOfCall(call) THEN ItemsOf(before, section)
            ELSE IF call = "add_import"
                    /\ line \in Range(ItemsOf(before, section))
            THEN ItemsOf(before, section)
            ELSE ItemsOf(before, section) \o <<line>>

\* C26: whatever the order of the add_import, add_enum, add_message and
\* add_service calls, the text has the syntax line first, then the package
\* line, the imports, the options, the enums, the messages and the services,
\* and the items of a section are in the order they were added.
C26_SectionOrder == []SectionsInOrder /\ [][AddedLast]_vars

\* a service, then a message, then an import were added; the text has the
\* import before the message and the message before the service
C26_Witness ==
  /\ writer # <<>>
  /\ Called("add_import")
  /\ Len(writer[1].imports) = 1
  /\ Len(writer[1].messages) = 1
  /\ Len(writer[1].services) = 1
  /\ LET text == fmt(writer[1])
     IN  \E i, j, k \in DOMAIN text :
           /\ i < j /\ j < k
           /\ text[i] = ItemLine("add_import", returned.argument)
           /\ SectionOf(text[j]) = 6
           /\ SectionOf(text[k]) = 7

(***************************************************************************)
(* Files: what generate returned against the specification it was given     *)
(***************************************************************************)
\* a is b with some of its elements left out
RECURSIVE IsSubsequence(_, _)
IsSubsequence(a, b) ==
  IF a = <<>> THEN TRUE
  ELSE IF b = <<>> THEN FALSE
  ELSE IF Head(a) = Head(b) THEN IsSubsequence(Tail(a), Tail(b))
  ELSE IsSubsequence(a, Tail(b))

\* the names of the rpcs of the service of a file, in text order
RpcNames(o, file) == [r \in DOMAIN RpcsOf(o, file) |-> RpcsOf(o, file)[r].name]

\* C25: generate returns exactly the five files common.proto, main.proto,
\* write.proto, trace.proto and ws.proto, whatever the specification; each
\* of the four service files imports common.proto, and every file begins
\* with the proto3 syntax line.
C25_FiveFiles ==
  \A n \in DOMAIN outputs :
    /\ DOMAIN outputs[n].files
         = {"common.proto", "main.proto", "write.proto", "trace.proto",
            "ws.proto"}
    /\ \A file \in DOMAIN outputs[n].files :
         LET text == fmt(outputs[n].files[file])
         IN  /\ text[1] = <<"s","y","n","t","a","x"," ","="," ","\"","p","r","o","t","o","3","\"",";">>
             /\ file # "common.proto" =>
                  \E l \in DOMAIN text :
                    /\ SectionOf(text[l]) = 3
                    /\ Occurs(<<"/","c","o","m","m","o","n",".","p","r","o","t","o","\"",";">>, text[l])

\* generate on the specification without methods and schemas
C25_Witness ==
  \E n \in DOMAIN outputs :
    /\ outputs[n].specs = MinimalSpecification
    /\ Cardinality(DOMAIN outputs[n].files) = 5
    /\ fmt(outputs[n].files["ws.proto"])[5] = <<"i","m","p","o","r","t"," ","\"","v","0","_","1","_","0","/","c","o","m","m","o","n",".","p","r","o","t","o","\"",";">>
    /\ fmt(outputs[n].files["common.proto"])[1] = <<"s","y","n","t","a","x"," ","="," ","\"","p","r","o","t","o","3","\"",";">>

\* C29: every method of the specification has its rpc in at least one of
\* the four services, and the rpcs of a service are in the relative order of
\* the methods in the specification.
C29_SurfaceCoverage ==
  \A n \in DOMAIN outputs :
    LET methods == outputs[n].specs.methods
        rpc_names == [i \in DOMAIN methods |-> RpcNameOf(methods[i].name)]
    IN  /\ \A i \in DOMAIN methods :
             \E file \in ServiceFiles :
               rpc_names[i] \in Range(RpcNames(outputs[n], file))
        /\ \A file \in ServiceFiles :
             IsSubsequence(RpcNames(outputs[n], file), rpc_names)

C29_Witness ==
  \E n \in DOMAIN outputs :
    /\ outputs[n].specs = TxnSpecification
    /\ RpcNames(outputs[n], "main.proto")
         = <<<<"A","d","d","I","n","v","o","k","e","T","r","a","n","s","a","c","t","i","o","n">>, <<"S","i","m","u","l","a","t","e","I","n","v","o","k","e">>, <<"I","n","v","o","k","e","F","u","n","c","t","i","o","n">>,
             <<"G","e","t","S","t","o","r","a","g","e","A","t">>>>
    /\ RpcNames(outputs[n], "trace.proto")
         = <<<<"T","r","a","c","e","T","r","a","n","s","a","c","t","i","o","n">>, <<"S","u","b","s","c","r","i","b","e","T","r","a","c","e","W","r","i","t","e","s">>>>
    /\ RpcNames(outputs[n], "ws.proto")
         = <<<<"U","n","s","u","b","s","c","r","i","b","e">>, <<"S","u","b","s","c","r","i","b","e","T","r","a","c","e","W","r","i","t","e","s">>>>

\* C30: for a fresh TypeResolver a top-level Ref entry produces no message,
\* no enum and no type_map entry, every other entry produces exactly one IR
\* node (an enum for a String with an enum list, a message otherwise), the
\* common messages and enums are as many as the non-Ref entries, and
\* type_map maps exactly the non-Ref names to their PascalCase names.
C30_RefEntriesAndCompleteness ==
  \A n \in DOMAIN outputs :
    outputs[n].fresh =>
      LET schemas == outputs[n].specs.schemas
          resolution == outputs[n].result
          non_ref == {e \in DOMAIN schemas : schemas[e].value.kind # "Ref"}
          Named(nodes, e) ==
            {i \in DOMAIN nodes : nodes[i].name = PascalCaseOf(schemas[e].key)}
      IN  /\ Len(resolution.common_types) + Len(resolution.common_enums)
               = Cardinality(non_ref)
          /\ DOMAIN resolution.type_map = {schemas[e].key : e \in non_ref}
          /\ \A e \in non_ref :
               /\ resolution.type_map[schemas[e].key]
                    = PascalCaseOf(schemas[e].key)
               /\ IF schemas[e].value.kind = "String" /\ schemas[e].value.hasEnum
                  THEN /\ Cardinality(Named(resolution.common_enums, e)) = 1
                       /\ Named(resolution.common_types, e) = {}
                  ELSE /\ Cardinality(Named(resolution.common_types, e)) = 1
                       /\ Named(resolution.common_enums, e) = {}
          /\ \A e \in DOMAIN schemas \ non_ref :
               /\ schemas[e].key \notin DOMAIN resolution.type_map
               /\ Named(resolution.common_types, e) = {}
               /\ Named(resolution.common_enums, e) = {}

\* the table of the tests: BLOCK_HASH is a reference, TXN_STATUS an enum
C30_Witness ==
  \E n \in DOMAIN outputs :
    /\ outputs[n].fresh
    /\ outputs[n].specs = TestSpecification
    /\ Len(outputs[n].result.common_types) = 2
    /\ Len(outputs[n].result.common_enums) = 1
    /\ DOMAIN outputs[n].result.type_map = {FELT, TXN_STATUS, BLOCK}
    /\ outputs[n].result.type_map[TXN_STATUS] = <<"T","x","n","S","t","a","t","u","s">>

====
